---- MODULE Spec2Model ----
(***************************************************************************)
(* Model of the admin service: the PostgreSQL schema (tables, CHECK and    *)
(* UNIQUE constraints, BEFORE UPDATE triggers), the four postgres          *)
(* repositories and the user / task / category / tag services on top.      *)
(*                                                                         *)
(* A table is a sequence of rows.  The index of a row is both its id       *)
(* (uuid.New() is fresh) and its created_at (time.Now() at insert), so     *)
(* ORDER BY created_at DESC is descending index order.  The id 0 stands    *)
(* for the empty string "".                                                *)
(***************************************************************************)
EXTENDS Integers, Sequences, FiniteSets, TLC

\* ---------------------------------------------------------------- bounds
MaxUsers == 3
MaxTasks == 2
MaxCategories == 3
MaxTags == 2
MaxVersion == 2

\* ------------------------------------------------------- program constants
DefaultPageSize == 50
AdminCountPageSize == 1000
FindByNamePageSize == 100
UsageCountPageSize == 1
MaxTagNameLen == 50

\* ------------------------------------------------------------ domain errors
Nil == [type |-> "nil", wrapped |-> FALSE]

DomainError(t) == [type |-> t, wrapped |-> FALSE]

ErrNotFound == DomainError("NOT_FOUND")
ErrInvalidInput == DomainError("INVALID_INPUT")
ErrConflict == DomainError("CONFLICT")
ErrVersionConflict == DomainError("VERSION_CONFLICT")
ErrPermissionDenied == DomainError("PERMISSION_DENIED")
ErrBusinessRule == DomainError("BUSINESS_RULE_VIOLATION")

\* an error raised by the database driver (*pq.Error): not a DomainError
StorageError == [type |-> "STORAGE", wrapped |-> FALSE]

\* fmt.Errorf("...: %w", err): the result is a *fmt.wrapError, whose dynamic
\* type is no longer DomainError
Wrap(e) == [e EXCEPT !.wrapped = TRUE]

\* the predicates are a type assertion err.(DomainError) and a test of Type
IsNotFoundError(e) == ~e.wrapped /\ e.type = "NOT_FOUND"
IsVersionConflictError(e) == ~e.wrapped /\ e.type = "VERSION_CONFLICT"
IsBusinessRuleError(e) == ~e.wrapped /\ e.type = "BUSINESS_RULE_VIOLATION"
IsConflictError(e) == ~e.wrapped /\ e.type = "CONFLICT"
IsInvalidInputError(e) == ~e.wrapped /\ e.type = "INVALID_INPUT"

\* ------------------------------------------------------------ domain model
UserRoleUnspecified == "unspecified"
UserRoleUser == "user"
UserRoleAdmin == "admin"

TaskStatusUnspecified == "unspecified"
TaskStatusOpen == "OPEN"
TaskStatusInProgress == "IN_PROGRESS"
TaskStatusCompleted == "COMPLETED"
TaskStatusCancelled == "CANCELLED"

TaskStatuses == {TaskStatusOpen, TaskStatusInProgress, TaskStatusCompleted, TaskStatusCancelled}

TaskPriorities == {"LOW", "MEDIUM", "HIGH", "URGENT"}

UserIsValid(u) ==
    IF u.name = "" THEN ErrInvalidInput
    ELSE IF u.email = "" THEN ErrInvalidInput
    ELSE IF u.role = "" \/ u.role = UserRoleUnspecified THEN ErrInvalidInput
    ELSE Nil

TaskIsValid(t) ==
    IF t.title = "" THEN ErrInvalidInput
    ELSE IF t.assignee_id = 0 THEN ErrInvalidInput
    ELSE IF t.status = "" \/ t.status = TaskStatusUnspecified THEN ErrInvalidInput
    ELSE Nil

\* a category name, like a tag name, is a sequence of characters
CategoryIsValid(c) ==
    IF c.name = << >> THEN ErrInvalidInput
    ELSE IF c.creator_id = 0 THEN ErrInvalidInput
    ELSE Nil

TagIsValid(t) ==
    IF t.name = << >> THEN ErrInvalidInput
    ELSE IF t.creator_id = 0 THEN ErrInvalidInput
    ELSE Nil

\* ------------------------------------------------------------------ strings
ToLowerChar(c) == IF c = "A" THEN "a" ELSE IF c = "B" THEN "b" ELSE c

ToLower(s) == [i \in 1..Len(s) |-> ToLowerChar(s[i])]

IsSpace(c) == c = " "

RECURSIVE TrimLeft(_)
TrimLeft(s) == IF s # << >> /\ IsSpace(Head(s)) THEN TrimLeft(Tail(s)) ELSE s

RECURSIVE TrimRight(_)
TrimRight(s) ==
    IF s # << >> /\ IsSpace(s[Len(s)]) THEN TrimRight(SubSeq(s, 1, Len(s) - 1)) ELSE s

TrimSpace(s) == TrimRight(TrimLeft(s))

\* strings.Fields: the maximal runs of non-space characters
RECURSIVE FieldsFrom(_, _, _)
FieldsFrom(s, cur, acc) ==
    IF s = << >> THEN (IF cur = << >> THEN acc ELSE Append(acc, cur))
    ELSE IF IsSpace(Head(s))
         THEN FieldsFrom(Tail(s), << >>, IF cur = << >> THEN acc ELSE Append(acc, cur))
         ELSE FieldsFrom(Tail(s), Append(cur, Head(s)), acc)

Fields(s) == FieldsFrom(s, << >>, << >>)

RECURSIVE Join(_, _)
Join(words, sep) ==
    IF words = << >> THEN << >>
    ELSE IF Len(words) = 1 THEN words[1]
    ELSE words[1] \o <<sep>> \o Join(Tail(words), sep)

\* s LIKE p: in the pattern % stands for any run of characters, _ for any one
\* character, and a backslash makes the character after it stand for itself
RECURSIVE Like(_, _)
Like(s, p) ==
    IF p = << >> THEN s = << >>
    ELSE IF Head(p) = "%" THEN Like(s, Tail(p)) \/ (s # << >> /\ Like(Tail(s), p))
    ELSE IF Head(p) = "_" THEN s # << >> /\ Like(Tail(s), Tail(p))
    ELSE IF Head(p) = "\\" /\ Len(p) > 1
         THEN s # << >> /\ Head(s) = p[2] /\ Like(Tail(s), Tail(Tail(p)))
    ELSE s # << >> /\ Head(s) = Head(p) /\ Like(Tail(s), Tail(p))

\* s ILIKE "%" + q + "%": the query is put between two % as it is, and the
\* match ignores case
ContainsFold(s, q) == Like(ToLower(s), <<"%">> \o ToLower(q) \o <<"%">>)

\* ------------------------------------------------------------- the database
VARIABLES users, tasks, categories, tags, task_categories, task_tags

\* the six tables as one value, as the repositories share one *sql.DB
DB == [users |-> users, tasks |-> tasks, categories |-> categories, tags |-> tags,
       task_categories |-> task_categories, task_tags |-> task_tags]

Min(a, b) == IF a < b THEN a ELSE b

Reverse(s) == [i \in 1..Len(s) |-> s[Len(s) + 1 - i]]

HasRow(table, id) == id \in 1..Len(table)

\* mutation of check_version: a trigger that lets every update through
check_version_passes(old, new) == FALSE

\* BEFORE UPDATE ... FOR EACH ROW EXECUTE FUNCTION check_version():
\* TRUE when the trigger raises 'Optimistic lock error'
check_version(old, new) == old.version # new.version - 1

\* mutation of ExecUpdate: the statement has no "id = $1" in its WHERE clause and
\* the table no trigger, every row at that version is overwritten
ExecUpdate_every_row(table, id, version, deleted, new, violates) ==
    LET hit == {i \in 1..Len(table) :
                   table[i].version = version /\ table[i].is_deleted = deleted}
    IN IF ~HasRow(table, id) \/ hit = {} THEN [err |-> Nil, rows |-> 0, table |-> table]
       ELSE [err |-> Nil, rows |-> Cardinality(hit),
             table |-> [i \in 1..Len(table) |->
                           IF i \in hit THEN [new EXCEPT !.id = i] ELSE table[i]]]

\* UPDATE <table> SET ... WHERE id = $1 AND version = $2 AND is_deleted = <deleted>:
\* new is the matched row with the SET list applied, violates whether new breaks a
\* constraint of the table.
\* The row trigger fires for the matched row, then the constraints are checked;
\* an exception aborts the statement and nothing is written.
ExecUpdate(table, id, version, deleted, new, violates) ==
    IF HasRow(table, id) /\ table[id].version = version /\ table[id].is_deleted = deleted
    THEN IF check_version(table[id], new) \/ violates
         THEN [err |-> StorageError, rows |-> 0, table |-> table]
         ELSE [err |-> Nil, rows |-> 1, table |-> [table EXCEPT ![id] = new]]
    ELSE [err |-> Nil, rows |-> 0, table |-> table]

\* SELECT COUNT(*) ... WHERE <filter>, then SELECT ... WHERE <filter>, over the
\* rows matching the filter:
\* ORDER BY created_at DESC LIMIT pageSize OFFSET page * pageSize
ListRows(matching, page, pageSize) ==
    LET ordered == Reverse(matching)
        size == IF pageSize <= 0 THEN DefaultPageSize ELSE pageSize
        offset == page * size
    IN [items |-> SubSeq(ordered, offset + 1, Min(offset + size, Len(ordered))),
        total |-> Len(matching)]

\* ----------------------------------------------------------- userRepository
\* users.email is UNIQUE over all rows, users.role has a CHECK constraint
UsersViolates(table, new) ==
    \/ new.role \notin {UserRoleUser, UserRoleAdmin}
    \/ \E i \in 1..Len(table) : i # new.id /\ table[i].email = new.email

userRepo_Create(db, user) ==
    LET u == [id |-> Len(db.users) + 1, name |-> user.name, email |-> user.email,
              role |-> user.role, version |-> 1, is_deleted |-> FALSE]
    IN IF UserIsValid(u) # Nil THEN [db |-> db, err |-> Wrap(UserIsValid(u)), id |-> 0]
       ELSE IF UsersViolates(db.users, u) THEN [db |-> db, err |-> StorageError, id |-> 0]
       ELSE [db |-> [db EXCEPT !.users = Append(@, u)], err |-> Nil, id |-> u.id]

userRepo_GetByID(db, id) ==
    IF HasRow(db.users, id) /\ ~db.users[id].is_deleted
    THEN [row |-> db.users[id], err |-> Nil]
    ELSE [row |-> Nil, err |-> ErrNotFound]

\* QueryRow().Scan() takes the first matching row
userRepo_GetByEmail(db, email) ==
    LET hits == SelectSeq(db.users, LAMBDA r : r.email = email /\ ~r.is_deleted)
    IN IF hits # << >> THEN [row |-> hits[1], err |-> Nil]
       ELSE [row |-> Nil, err |-> ErrNotFound]

\* the callers in the services pass no SearchQuery and no SortBy for users
userRepo_List(db, includeDeleted, page, pageSize) ==
    LET Matches(r) == includeDeleted \/ ~r.is_deleted
    IN ListRows(SelectSeq(db.users, Matches), page, pageSize)

userRepo_Update(db, user) ==
    IF UserIsValid(user) # Nil THEN [db |-> db, err |-> Wrap(UserIsValid(user))]
    ELSE LET new == [db.users[user.id] EXCEPT !.name = user.name, !.email = user.email,
                              !.role = user.role]
             res == ExecUpdate(db.users, user.id, user.version, FALSE, new, UsersViolates(db.users, new))
         IN IF res.err # Nil THEN [db |-> db, err |-> Wrap(res.err)]
            ELSE IF res.rows = 0 THEN [db |-> db, err |-> ErrVersionConflict]
            ELSE [db |-> [db EXCEPT !.users = res.table], err |-> Nil]

\* mutation of userRepo_SoftDelete: zero affected rows are not reported
userRepo_SoftDelete_ignores_rows(db, id, version) ==
    LET new == [db.users[id] EXCEPT !.is_deleted = TRUE]
        res == ExecUpdate(db.users, id, version, FALSE, new, FALSE)
    IN IF res.err # Nil THEN [db |-> db, err |-> Wrap(res.err)]
       ELSE [db |-> [db EXCEPT !.users = res.table], err |-> Nil]

userRepo_SoftDelete(db, id, version) ==
    LET new == [db.users[id] EXCEPT !.is_deleted = TRUE]
        res == ExecUpdate(db.users, id, version, FALSE, new, FALSE)
    IN IF res.err # Nil THEN [db |-> db, err |-> Wrap(res.err)]
       ELSE IF res.rows = 0 THEN [db |-> db, err |-> ErrVersionConflict]
       ELSE [db |-> [db EXCEPT !.users = res.table], err |-> Nil]

userRepo_Restore(db, id, version) ==
    LET new == [db.users[id] EXCEPT !.is_deleted = FALSE, !.version = @ + 1]
        res == ExecUpdate(db.users, id, version, TRUE, new, FALSE)
    IN IF res.err # Nil THEN [db |-> db, err |-> Wrap(res.err)]
       ELSE IF res.rows = 0 THEN [db |-> db, err |-> ErrVersionConflict]
       ELSE [db |-> [db EXCEPT !.users = res.table], err |-> Nil]

\* -------------------------------------------------------------- userService
validateUserForCreation(user) ==
    IF UserIsValid(user) # Nil THEN UserIsValid(user)
    ELSE IF user.role = UserRoleUnspecified THEN ErrInvalidInput
    ELSE Nil

validateUserForUpdate(user) ==
    IF user.id = 0 THEN ErrInvalidInput
    ELSE UserIsValid(user)

countAdminUsers(db) ==
    LET page == userRepo_List(db, FALSE, 0, AdminCountPageSize).items
    IN Cardinality({i \in 1..Len(page) : page[i].role = UserRoleAdmin})

validateUserForDeletion(db, userID) ==
    LET got == userRepo_GetByID(db, userID)
    IN IF got.err # Nil THEN Wrap(got.err)
       ELSE IF got.row.role = UserRoleAdmin /\ countAdminUsers(db) <= 1 THEN ErrBusinessRule
       ELSE Nil

validateRoleChange(db, user, newRole) ==
    IF user.role = UserRoleAdmin /\ newRole # UserRoleAdmin /\ countAdminUsers(db) <= 1
    THEN ErrBusinessRule
    ELSE Nil

\* mutation of hasRequiredRole: a strict comparison of the ranks
hasRequiredRole_strict(userRole, requiredRole) ==
    LET roleHierarchy(r) == IF r = UserRoleUser THEN 1 ELSE IF r = UserRoleAdmin THEN 2 ELSE 0
    IN roleHierarchy(userRole) > roleHierarchy(requiredRole)

hasRequiredRole(userRole, requiredRole) ==
    LET roleHierarchy(r) == IF r = UserRoleUser THEN 1 ELSE IF r = UserRoleAdmin THEN 2 ELSE 0
    IN roleHierarchy(userRole) >= roleHierarchy(requiredRole)

\* mutation of CreateUser: the lookup for the email comes before the validation
CreateUser_lookup_first(db, user) ==
    IF userRepo_GetByEmail(db, user.email).err = Nil THEN [db |-> db, err |-> ErrConflict]
    ELSE IF validateUserForCreation(user) # Nil
    THEN [db |-> db, err |-> validateUserForCreation(user)]
    ELSE LET res == userRepo_Create(db, user)
         IN IF res.err # Nil THEN [db |-> db, err |-> Wrap(res.err)]
            ELSE [db |-> res.db, err |-> Nil]

CreateUser(db, user) ==
    IF validateUserForCreation(user) # Nil THEN [db |-> db, err |-> validateUserForCreation(user)]
    ELSE IF userRepo_GetByEmail(db, user.email).err = Nil THEN [db |-> db, err |-> ErrConflict]
    ELSE LET res == userRepo_Create(db, user)
         IN IF res.err # Nil THEN [db |-> db, err |-> Wrap(res.err)]
            ELSE [db |-> res.db, err |-> Nil]

UpdateUser(db, user) ==
    IF validateUserForUpdate(user) # Nil THEN [db |-> db, err |-> validateUserForUpdate(user)]
    ELSE LET existing == userRepo_GetByID(db, user.id)
             conflict == userRepo_GetByEmail(db, user.email)
         IN IF existing.err # Nil THEN [db |-> db, err |-> Wrap(existing.err)]
            ELSE IF existing.row.email # user.email /\ conflict.err = Nil
                    /\ conflict.row.id # user.id
            THEN [db |-> db, err |-> ErrConflict]
            ELSE LET res == userRepo_Update(db, user)
                 IN IF res.err = Nil \/ IsVersionConflictError(res.err) THEN res
                    ELSE [db |-> db, err |-> Wrap(res.err)]

DeleteUser(db, id, version) ==
    IF id = 0 THEN [db |-> db, err |-> ErrInvalidInput]
    ELSE IF validateUserForDeletion(db, id) # Nil
    THEN [db |-> db, err |-> validateUserForDeletion(db, id)]
    ELSE LET res == userRepo_SoftDelete(db, id, version)
         IN IF res.err = Nil \/ IsVersionConflictError(res.err) THEN res
            ELSE [db |-> db, err |-> Wrap(res.err)]

RestoreUser(db, id, version) ==
    IF id = 0 THEN [db |-> db, err |-> ErrInvalidInput]
    ELSE LET res == userRepo_Restore(db, id, version)
         IN IF IsVersionConflictError(res.err) THEN res
            ELSE IF res.err # Nil THEN [db |-> db, err |-> Wrap(res.err)]
            ELSE IF userRepo_GetByID(res.db, id).err # Nil
            THEN [db |-> res.db, err |-> Wrap(userRepo_GetByID(res.db, id).err)]
            ELSE res

ChangeUserRole(db, userID, newRole, version) ==
    LET got == userRepo_GetByID(db, userID)
    IN IF got.err # Nil THEN [db |-> db, err |-> Wrap(got.err)]
       ELSE IF got.row.version # version THEN [db |-> db, err |-> ErrVersionConflict]
       ELSE IF validateRoleChange(db, got.row, newRole) # Nil
       THEN [db |-> db, err |-> validateRoleChange(db, got.row, newRole)]
       ELSE UpdateUser(db, [got.row EXCEPT !.role = newRole])

ValidateUserPermissions(db, userID, requiredRole) ==
    LET got == userRepo_GetByID(db, userID)
    IN IF got.err # Nil THEN Wrap(got.err)
       ELSE IF ~hasRequiredRole(got.row.role, requiredRole) THEN ErrPermissionDenied
       ELSE Nil

\* ----------------------------------------------------------- taskRepository
\* tasks.assignee_id REFERENCES users(id); status and priority have CHECK constraints
TasksViolates(db, new) ==
    \/ ~HasRow(db.users, new.assignee_id)
    \/ new.status \notin TaskStatuses
    \/ new.priority \notin TaskPriorities

taskRepo_Create(db, task) ==
    LET t == [id |-> Len(db.tasks) + 1, title |-> task.title, assignee_id |-> task.assignee_id,
              status |-> task.status, priority |-> task.priority,
              version |-> 1, is_deleted |-> FALSE]
    IN IF TaskIsValid(t) # Nil THEN [db |-> db, err |-> Wrap(TaskIsValid(t)), id |-> 0]
       ELSE IF TasksViolates(db, t) THEN [db |-> db, err |-> StorageError, id |-> 0]
       ELSE [db |-> [db EXCEPT !.tasks = Append(@, t)], err |-> Nil, id |-> t.id]

taskRepo_GetByID(db, id) ==
    IF HasRow(db.tasks, id) /\ ~db.tasks[id].is_deleted
    THEN [row |-> db.tasks[id], err |-> Nil]
    ELSE [row |-> Nil, err |-> ErrNotFound]

\* opts.CategoryIDs and opts.TagIDs are fields of TaskListOptions that List never reads
taskRepo_List(db, opts) ==
    LET Matches(r) == /\ (opts.IncludeDeleted \/ ~r.is_deleted)
                      /\ (opts.AssigneeID # 0 => r.assignee_id = opts.AssigneeID)
                      /\ (opts.Status # "" /\ opts.Status # TaskStatusUnspecified
                             => r.status = opts.Status)
                      /\ (opts.Priority # "" /\ opts.Priority # "unspecified"
                             => r.priority = opts.Priority)
    IN ListRows(SelectSeq(db.tasks, Matches), opts.Page, opts.PageSize)

TaskListOptions(pageSize, categoryIDs, tagIDs) ==
    [IncludeDeleted |-> FALSE, AssigneeID |-> 0, Status |-> "", Priority |-> "", Page |-> 0,
     PageSize |-> pageSize, CategoryIDs |-> categoryIDs, TagIDs |-> tagIDs]

taskRepo_Update(db, task) ==
    IF TaskIsValid(task) # Nil THEN [db |-> db, err |-> Wrap(TaskIsValid(task))]
    ELSE LET new == [db.tasks[task.id] EXCEPT !.title = task.title,
                              !.assignee_id = task.assignee_id,
                              !.status = task.status,
                              !.priority = task.priority]
             res == ExecUpdate(db.tasks, task.id, task.version, FALSE, new, TasksViolates(db, new))
         IN IF res.err # Nil THEN [db |-> db, err |-> Wrap(res.err)]
            ELSE IF res.rows = 0 THEN [db |-> db, err |-> ErrVersionConflict]
            ELSE [db |-> [db EXCEPT !.tasks = res.table], err |-> Nil]

taskRepo_SoftDelete(db, id, version) ==
    LET new == [db.tasks[id] EXCEPT !.is_deleted = TRUE]
        res == ExecUpdate(db.tasks, id, version, FALSE, new, FALSE)
    IN IF res.err # Nil THEN [db |-> db, err |-> Wrap(res.err)]
       ELSE IF res.rows = 0 THEN [db |-> db, err |-> ErrVersionConflict]
       ELSE [db |-> [db EXCEPT !.tasks = res.table], err |-> Nil]

taskRepo_Restore(db, id, version) ==
    LET new == [db.tasks[id] EXCEPT !.is_deleted = FALSE, !.version = @ + 1]
        res == ExecUpdate(db.tasks, id, version, TRUE, new, FALSE)
    IN IF res.err # Nil THEN [db |-> db, err |-> Wrap(res.err)]
       ELSE IF res.rows = 0 THEN [db |-> db, err |-> ErrVersionConflict]
       ELSE [db |-> [db EXCEPT !.tasks = res.table], err |-> Nil]

\* UPDATE tasks SET updated_at = NOW() WHERE id = $1, inside the relation
\* transaction: the row trigger sees an unchanged version
TouchTask(table, taskID) ==
    IF HasRow(table, taskID) /\ check_version(table[taskID], table[taskID])
    THEN StorageError
    ELSE Nil

\* mutation of RelationTx: no transaction, the junction rows changed before the
\* failing statement stay changed
RelationTx_no_rollback(db, taskID, ids, version, junction, target, adding) ==
    IF ids = {} THEN [db |-> db, err |-> Nil]
    ELSE IF ~(HasRow(db.tasks, taskID) /\ ~db.tasks[taskID].is_deleted)
    THEN [db |-> db, err |-> Wrap(StorageError)]
    ELSE IF db.tasks[taskID].version # version THEN [db |-> db, err |-> ErrVersionConflict]
    ELSE IF adding /\ \E i \in ids : ~HasRow(db[target], i)
    THEN [db |-> db, err |-> Wrap(StorageError)]
    ELSE [db |-> [db EXCEPT ![junction] =
                     IF adding THEN @ \cup {<<taskID, i>> : i \in ids}
                     ELSE @ \ {<<taskID, i>> : i \in ids}],
          err |-> IF TouchTask(db.tasks, taskID) # Nil THEN Wrap(StorageError) ELSE Nil]

\* the body shared by AddCategories / RemoveCategories / AddTags / RemoveTags:
\* BeginTx, SELECT version, compare, change the junction rows, touch the task,
\* Commit; the deferred Rollback undoes everything on any early return
RelationTx(db, taskID, ids, version, junction, target, adding) ==
    IF ids = {} THEN [db |-> db, err |-> Nil]
    ELSE IF ~(HasRow(db.tasks, taskID) /\ ~db.tasks[taskID].is_deleted)
    THEN [db |-> db, err |-> Wrap(StorageError)]
    ELSE IF db.tasks[taskID].version # version THEN [db |-> db, err |-> ErrVersionConflict]
    ELSE IF adding /\ \E i \in ids : ~HasRow(db[target], i)
    THEN [db |-> db, err |-> Wrap(StorageError)]
    ELSE IF TouchTask(db.tasks, taskID) # Nil THEN [db |-> db, err |-> Wrap(StorageError)]
    ELSE [db |-> [db EXCEPT ![junction] =
                     IF adding THEN @ \cup {<<taskID, i>> : i \in ids}
                     ELSE @ \ {<<taskID, i>> : i \in ids}],
          err |-> Nil]

taskRepo_AddCategories(db, taskID, categoryIDs, version) ==
    RelationTx(db, taskID, categoryIDs, version, "task_categories", "categories", TRUE)

taskRepo_RemoveCategories(db, taskID, categoryIDs, version) ==
    RelationTx(db, taskID, categoryIDs, version, "task_categories", "categories", FALSE)

taskRepo_AddTags(db, taskID, tagIDs, version) ==
    RelationTx(db, taskID, tagIDs, version, "task_tags", "tags", TRUE)

taskRepo_RemoveTags(db, taskID, tagIDs, version) ==
    RelationTx(db, taskID, tagIDs, version, "task_tags", "tags", FALSE)

\* ------------------------------------------------------- categoryRepository
\* categories.creator_id REFERENCES users(id); there is no unique index on name
CategoriesViolates(db, new) == ~HasRow(db.users, new.creator_id)

categoryRepo_Create(db, category) ==
    LET c == [id |-> Len(db.categories) + 1, name |-> category.name,
              creator_id |-> category.creator_id, version |-> 1, is_deleted |-> FALSE]
    IN IF CategoryIsValid(c) # Nil THEN [db |-> db, err |-> Wrap(CategoryIsValid(c)), id |-> 0]
       ELSE IF CategoriesViolates(db, c) THEN [db |-> db, err |-> StorageError, id |-> 0]
       ELSE [db |-> [db EXCEPT !.categories = Append(@, c)], err |-> Nil, id |-> c.id]

categoryRepo_GetByID(db, id) ==
    IF HasRow(db.categories, id) /\ ~db.categories[id].is_deleted
    THEN [row |-> db.categories[id], err |-> Nil]
    ELSE [row |-> Nil, err |-> ErrNotFound]

categoryRepo_List(db, includeDeleted, searchQuery, page, pageSize) ==
    LET Matches(r) == /\ (includeDeleted \/ ~r.is_deleted)
                      /\ (searchQuery # << >> => ContainsFold(r.name, searchQuery))
    IN ListRows(SelectSeq(db.categories, Matches), page, pageSize)

\* the SET list of Update has no creator_id
categoryRepo_Update(db, category) ==
    IF CategoryIsValid(category) # Nil THEN [db |-> db, err |-> Wrap(CategoryIsValid(category))]
    ELSE LET new == [db.categories[category.id] EXCEPT !.name = category.name]
             res == ExecUpdate(db.categories, category.id, category.version, FALSE, new, FALSE)
         IN IF res.err # Nil THEN [db |-> db, err |-> Wrap(res.err)]
            ELSE IF res.rows = 0 THEN [db |-> db, err |-> ErrVersionConflict]
            ELSE [db |-> [db EXCEPT !.categories = res.table], err |-> Nil]

categoryRepo_SoftDelete(db, id, version) ==
    LET new == [db.categories[id] EXCEPT !.is_deleted = TRUE]
        res == ExecUpdate(db.categories, id, version, FALSE, new, FALSE)
    IN IF res.err # Nil THEN [db |-> db, err |-> Wrap(res.err)]
       ELSE IF res.rows = 0 THEN [db |-> db, err |-> ErrVersionConflict]
       ELSE [db |-> [db EXCEPT !.categories = res.table], err |-> Nil]

\* unlike users and tasks, the SET list of Restore has no version = version + 1
categoryRepo_Restore(db, id, version) ==
    LET new == [db.categories[id] EXCEPT !.is_deleted = FALSE]
        res == ExecUpdate(db.categories, id, version, TRUE, new, FALSE)
    IN IF res.err # Nil THEN [db |-> db, err |-> Wrap(res.err)]
       ELSE IF res.rows = 0 THEN [db |-> db, err |-> ErrVersionConflict]
       ELSE [db |-> [db EXCEPT !.categories = res.table], err |-> Nil]

\* ------------------------------------------------------------ tagRepository
\* tags.creator_id REFERENCES users(id);
\* UNIQUE INDEX idx_tags_name_creator_unique ON tags(name, creator_id) WHERE NOT is_deleted
TagsViolates(db, new) ==
    \/ ~HasRow(db.users, new.creator_id)
    \/ /\ ~new.is_deleted
       /\ \E i \in 1..Len(db.tags) :
             /\ i # new.id
             /\ ~db.tags[i].is_deleted
             /\ db.tags[i].name = new.name
             /\ db.tags[i].creator_id = new.creator_id

tagRepo_Create(db, tag) ==
    LET t == [id |-> Len(db.tags) + 1, name |-> tag.name, color |-> tag.color,
              creator_id |-> tag.creator_id, version |-> 1, is_deleted |-> FALSE]
    IN IF TagIsValid(t) # Nil THEN [db |-> db, err |-> Wrap(TagIsValid(t)), id |-> 0]
       ELSE IF TagsViolates(db, t) THEN [db |-> db, err |-> StorageError, id |-> 0]
       ELSE [db |-> [db EXCEPT !.tags = Append(@, t)], err |-> Nil, id |-> t.id]

tagRepo_GetByID(db, id) ==
    IF HasRow(db.tags, id) /\ ~db.tags[id].is_deleted
    THEN [row |-> db.tags[id], err |-> Nil]
    ELSE [row |-> Nil, err |-> ErrNotFound]

tagRepo_List(db, includeDeleted, searchQuery, page, pageSize) ==
    LET Matches(r) == /\ (includeDeleted \/ ~r.is_deleted)
                      /\ (searchQuery # << >> => ContainsFold(r.name, searchQuery))
    IN ListRows(SelectSeq(db.tags, Matches), page, pageSize)

tagRepo_Update(db, tag) ==
    IF TagIsValid(tag) # Nil THEN [db |-> db, err |-> Wrap(TagIsValid(tag))]
    ELSE LET new == [db.tags[tag.id] EXCEPT !.name = tag.name, !.color = tag.color]
             res == ExecUpdate(db.tags, tag.id, tag.version, FALSE, new, TagsViolates(db, new))
         IN IF res.err # Nil THEN [db |-> db, err |-> Wrap(res.err)]
            ELSE IF res.rows = 0 THEN [db |-> db, err |-> ErrVersionConflict]
            ELSE [db |-> [db EXCEPT !.tags = res.table], err |-> Nil]

tagRepo_SoftDelete(db, id, version) ==
    LET new == [db.tags[id] EXCEPT !.is_deleted = TRUE]
        res == ExecUpdate(db.tags, id, version, FALSE, new, FALSE)
    IN IF res.err # Nil THEN [db |-> db, err |-> Wrap(res.err)]
       ELSE IF res.rows = 0 THEN [db |-> db, err |-> ErrVersionConflict]
       ELSE [db |-> [db EXCEPT !.tags = res.table], err |-> Nil]

tagRepo_Restore(db, id, version) ==
    LET new == [db.tags[id] EXCEPT !.is_deleted = FALSE]
        res == ExecUpdate(db.tags, id, version, TRUE, new, TagsViolates(db, new))
    IN IF res.err # Nil THEN [db |-> db, err |-> Wrap(res.err)]
       ELSE IF res.rows = 0 THEN [db |-> db, err |-> ErrVersionConflict]
       ELSE [db |-> [db EXCEPT !.tags = res.table], err |-> Nil]

\* -------------------------------------------------------------- taskService
validateTaskForCreation(task) ==
    IF TaskIsValid(task) # Nil THEN TaskIsValid(task)
    ELSE IF task.title = "" THEN ErrInvalidInput
    ELSE Nil

validateTaskForUpdate(task) ==
    IF task.id = 0 THEN ErrInvalidInput
    ELSE TaskIsValid(task)

validTransitions(current) ==
    IF current = TaskStatusOpen
    THEN {TaskStatusInProgress, TaskStatusCompleted, TaskStatusCancelled}
    ELSE IF current = TaskStatusInProgress
    THEN {TaskStatusCompleted, TaskStatusOpen, TaskStatusCancelled}
    ELSE IF current = TaskStatusCompleted THEN {TaskStatusOpen, TaskStatusInProgress}
    ELSE IF current = TaskStatusCancelled THEN {TaskStatusOpen, TaskStatusInProgress}
    ELSE {}

validateStatusTransition(currentStatus, newStatus) ==
    IF currentStatus \notin TaskStatuses THEN ErrBusinessRule
    ELSE IF newStatus \in validTransitions(currentStatus) THEN Nil
    ELSE ErrBusinessRule

\* mutation of validateAssignee: no lookup, every assignee is accepted
validateAssignee_accepts(db, assigneeID) == Nil

\* the assignee lookup shared by CreateTask, UpdateTask and AssignTask
validateAssignee(db, assigneeID) ==
    IF assigneeID # 0 /\ userRepo_GetByID(db, assigneeID).err # Nil
    THEN ErrInvalidInput
    ELSE Nil

CreateTask(db, task) ==
    IF validateTaskForCreation(task) # Nil THEN [db |-> db, err |-> validateTaskForCreation(task)]
    ELSE IF validateAssignee(db, task.assignee_id) # Nil
    THEN [db |-> db, err |-> validateAssignee(db, task.assignee_id)]
    ELSE LET res == taskRepo_Create(db, task)
         IN IF res.err # Nil THEN [db |-> db, err |-> Wrap(res.err)]
            ELSE [db |-> res.db, err |-> Nil]

UpdateTask(db, task) ==
    IF validateTaskForUpdate(task) # Nil THEN [db |-> db, err |-> validateTaskForUpdate(task)]
    ELSE IF validateAssignee(db, task.assignee_id) # Nil
    THEN [db |-> db, err |-> validateAssignee(db, task.assignee_id)]
    ELSE LET res == taskRepo_Update(db, task)
         IN IF res.err = Nil \/ IsVersionConflictError(res.err) THEN res
            ELSE [db |-> db, err |-> Wrap(res.err)]

DeleteTask(db, id, version) ==
    IF id = 0 THEN [db |-> db, err |-> ErrInvalidInput]
    ELSE LET res == taskRepo_SoftDelete(db, id, version)
         IN IF res.err = Nil \/ IsVersionConflictError(res.err) THEN res
            ELSE [db |-> db, err |-> Wrap(res.err)]

RestoreTask(db, id, version) ==
    IF id = 0 THEN [db |-> db, err |-> ErrInvalidInput]
    ELSE LET res == taskRepo_Restore(db, id, version)
         IN IF IsVersionConflictError(res.err) THEN res
            ELSE IF res.err # Nil THEN [db |-> db, err |-> Wrap(res.err)]
            ELSE IF taskRepo_GetByID(res.db, id).err # Nil
            THEN [db |-> res.db, err |-> Wrap(taskRepo_GetByID(res.db, id).err)]
            ELSE res

AssignTask(db, taskID, assigneeID, version) ==
    LET got == taskRepo_GetByID(db, taskID)
    IN IF got.err # Nil THEN [db |-> db, err |-> Wrap(got.err)]
       ELSE IF got.row.version # version THEN [db |-> db, err |-> ErrVersionConflict]
       ELSE IF validateAssignee(db, assigneeID) # Nil
       THEN [db |-> db, err |-> validateAssignee(db, assigneeID)]
       ELSE UpdateTask(db, [got.row EXCEPT !.assignee_id = assigneeID])

\* mutation of ChangeTaskStatus: the transition is validated before the versions
\* are compared
ChangeTaskStatus_validates_first(db, taskID, status, version) ==
    LET got == taskRepo_GetByID(db, taskID)
    IN IF got.err # Nil THEN [db |-> db, err |-> Wrap(got.err)]
       ELSE IF validateStatusTransition(got.row.status, status) # Nil
       THEN [db |-> db, err |-> validateStatusTransition(got.row.status, status)]
       ELSE IF got.row.version # version THEN [db |-> db, err |-> ErrVersionConflict]
       ELSE UpdateTask(db, [got.row EXCEPT !.status = status])

ChangeTaskStatus(db, taskID, status, version) ==
    LET got == taskRepo_GetByID(db, taskID)
    IN IF got.err # Nil THEN [db |-> db, err |-> Wrap(got.err)]
       ELSE IF got.row.version # version THEN [db |-> db, err |-> ErrVersionConflict]
       ELSE IF validateStatusTransition(got.row.status, status) # Nil
       THEN [db |-> db, err |-> validateStatusTransition(got.row.status, status)]
       ELSE UpdateTask(db, [got.row EXCEPT !.status = status])

ChangeTaskPriority(db, taskID, priority, version) ==
    LET got == taskRepo_GetByID(db, taskID)
    IN IF got.err # Nil THEN [db |-> db, err |-> Wrap(got.err)]
       ELSE IF got.row.version # version THEN [db |-> db, err |-> ErrVersionConflict]
       ELSE UpdateTask(db, [got.row EXCEPT !.priority = priority])

\* AddTaskCategories / AddTaskTags: load, compare versions, check that every id
\* exists, delegate to the repository transaction, wrap whatever it returns
AddTaskRelation(db, taskID, version, missing, res) ==
    LET got == taskRepo_GetByID(db, taskID)
    IN IF got.err # Nil THEN [db |-> db, err |-> Wrap(got.err)]
       ELSE IF got.row.version # version THEN [db |-> db, err |-> ErrVersionConflict]
       ELSE IF missing THEN [db |-> db, err |-> ErrInvalidInput]
       ELSE IF res.err # Nil THEN [db |-> res.db, err |-> Wrap(res.err)]
       ELSE [db |-> res.db, err |-> taskRepo_GetByID(res.db, taskID).err]

RemoveTaskRelation(db, taskID, version, res) ==
    LET got == taskRepo_GetByID(db, taskID)
    IN IF got.err # Nil THEN [db |-> db, err |-> Wrap(got.err)]
       ELSE IF got.row.version # version THEN [db |-> db, err |-> ErrVersionConflict]
       ELSE IF res.err # Nil THEN [db |-> res.db, err |-> Wrap(res.err)]
       ELSE [db |-> res.db, err |-> taskRepo_GetByID(res.db, taskID).err]

AddTaskCategories(db, taskID, categoryIDs, version) ==
    AddTaskRelation(db, taskID, version,
                    \E id \in categoryIDs : categoryRepo_GetByID(db, id).err # Nil,
                    taskRepo_AddCategories(db, taskID, categoryIDs, version))

RemoveTaskCategories(db, taskID, categoryIDs, version) ==
    RemoveTaskRelation(db, taskID, version,
                       taskRepo_RemoveCategories(db, taskID, categoryIDs, version))

AddTaskTags(db, taskID, tagIDs, version) ==
    AddTaskRelation(db, taskID, version,
                    \E id \in tagIDs : tagRepo_GetByID(db, id).err # Nil,
                    taskRepo_AddTags(db, taskID, tagIDs, version))

RemoveTaskTags(db, taskID, tagIDs, version) ==
    RemoveTaskRelation(db, taskID, version, taskRepo_RemoveTags(db, taskID, tagIDs, version))

\* ---------------------------------------------------------- categoryService
validateCategoryForCreation(category) ==
    IF CategoryIsValid(category) # Nil THEN CategoryIsValid(category)
    ELSE IF category.name = << >> THEN ErrInvalidInput
    ELSE Nil

validateCategoryForUpdate(category) ==
    IF category.id = 0 THEN ErrInvalidInput
    ELSE CategoryIsValid(category)

\* the first listed category whose name equals name, or Nil
findCategoryByName(db, name) ==
    LET hits == SelectSeq(categoryRepo_List(db, FALSE, name, 0, FindByNamePageSize).items,
                          LAMBDA r : r.name = name)
    IN IF hits = << >> THEN Nil ELSE hits[1]

GetCategoryTaskCount(db, categoryID) ==
    taskRepo_List(db, TaskListOptions(UsageCountPageSize, {categoryID}, {})).total

ValidateCategoryUsage(db, categoryID) ==
    IF GetCategoryTaskCount(db, categoryID) > 0 THEN ErrBusinessRule ELSE Nil

CreateCategory(db, category) ==
    IF validateCategoryForCreation(category) # Nil
    THEN [db |-> db, err |-> validateCategoryForCreation(category)]
    ELSE IF findCategoryByName(db, category.name) # Nil THEN [db |-> db, err |-> ErrConflict]
    ELSE LET res == categoryRepo_Create(db, category)
         IN IF res.err # Nil THEN [db |-> db, err |-> Wrap(res.err)]
            ELSE [db |-> res.db, err |-> Nil]

UpdateCategory(db, category) ==
    IF validateCategoryForUpdate(category) # Nil
    THEN [db |-> db, err |-> validateCategoryForUpdate(category)]
    ELSE LET existing == categoryRepo_GetByID(db, category.id)
             conflict == findCategoryByName(db, category.name)
         IN IF existing.err # Nil THEN [db |-> db, err |-> Wrap(existing.err)]
            ELSE IF existing.row.name # category.name /\ conflict # Nil
                    /\ conflict.id # category.id
            THEN [db |-> db, err |-> ErrConflict]
            ELSE LET res == categoryRepo_Update(db, category)
                 IN IF res.err = Nil \/ IsVersionConflictError(res.err) THEN res
                    ELSE [db |-> db, err |-> Wrap(res.err)]

DeleteCategory(db, id, version) ==
    IF id = 0 THEN [db |-> db, err |-> ErrInvalidInput]
    ELSE IF ValidateCategoryUsage(db, id) # Nil
    THEN [db |-> db, err |-> ValidateCategoryUsage(db, id)]
    ELSE LET res == categoryRepo_SoftDelete(db, id, version)
         IN IF res.err = Nil \/ IsVersionConflictError(res.err) THEN res
            ELSE [db |-> db, err |-> Wrap(res.err)]

RestoreCategory(db, id, version) ==
    IF id = 0 THEN [db |-> db, err |-> ErrInvalidInput]
    ELSE LET res == categoryRepo_Restore(db, id, version)
         IN IF IsVersionConflictError(res.err) THEN res
            ELSE IF res.err # Nil THEN [db |-> db, err |-> Wrap(res.err)]
            ELSE IF categoryRepo_GetByID(res.db, id).err # Nil
            THEN [db |-> res.db, err |-> Wrap(categoryRepo_GetByID(res.db, id).err)]
            ELSE res

\* --------------------------------------------------------------- tagService
TagNameChars == {"a", "b", "A", "B", "-", " "}

validateTagName(name) ==
    IF Len(name) > MaxTagNameLen THEN ErrInvalidInput
    ELSE IF \E i \in 1..Len(name) : name[i] \notin TagNameChars THEN ErrInvalidInput
    ELSE Nil

normalizeTagName(name) == Join(Fields(ToLower(TrimSpace(name))), "-")

validateTagForCreation(tag) ==
    IF TagIsValid(tag) # Nil THEN TagIsValid(tag)
    ELSE IF tag.name = << >> THEN ErrInvalidInput
    ELSE validateTagName(tag.name)

validateTagForUpdate(tag) ==
    IF tag.id = 0 THEN ErrInvalidInput
    ELSE IF TagIsValid(tag) # Nil THEN TagIsValid(tag)
    ELSE validateTagName(tag.name)

\* the first listed tag whose name equals name, or Nil
findTagByName(db, name) ==
    LET hits == SelectSeq(tagRepo_List(db, FALSE, name, 0, FindByNamePageSize).items,
                          LAMBDA r : r.name = name)
    IN IF hits = << >> THEN Nil ELSE hits[1]

generateDefaultTagColor == "#FF6B6B"

GetTagTaskCount(db, tagID) ==
    taskRepo_List(db, TaskListOptions(UsageCountPageSize, {}, {tagID})).total

ValidateTagUsage(db, tagID) ==
    IF GetTagTaskCount(db, tagID) > 0 THEN ErrBusinessRule ELSE Nil

CreateTag(db, tag) ==
    IF validateTagForCreation(tag) # Nil
    THEN [db |-> db, err |-> validateTagForCreation(tag), id |-> 0]
    ELSE LET normalized == [tag EXCEPT !.name = normalizeTagName(tag.name)]
         IN IF findTagByName(db, normalized.name) # Nil
            THEN [db |-> db, err |-> ErrConflict, id |-> 0]
            ELSE LET res == tagRepo_Create(db, normalized)
                 IN IF res.err # Nil THEN [db |-> db, err |-> Wrap(res.err), id |-> 0]
                    ELSE [db |-> res.db, err |-> Nil, id |-> res.id]

UpdateTag(db, tag) ==
    IF validateTagForUpdate(tag) # Nil THEN [db |-> db, err |-> validateTagForUpdate(tag)]
    ELSE LET normalized == [tag EXCEPT !.name = normalizeTagName(tag.name)]
             existing == tagRepo_GetByID(db, tag.id)
             conflict == findTagByName(db, normalized.name)
         IN IF existing.err # Nil THEN [db |-> db, err |-> Wrap(existing.err)]
            ELSE IF existing.row.name # normalized.name /\ conflict # Nil
                    /\ conflict.id # tag.id
            THEN [db |-> db, err |-> ErrConflict]
            ELSE LET res == tagRepo_Update(db, normalized)
                 IN IF res.err = Nil \/ IsVersionConflictError(res.err) THEN res
                    ELSE [db |-> db, err |-> Wrap(res.err)]

DeleteTag(db, id, version) ==
    IF id = 0 THEN [db |-> db, err |-> ErrInvalidInput]
    ELSE IF ValidateTagUsage(db, id) # Nil THEN [db |-> db, err |-> ValidateTagUsage(db, id)]
    ELSE LET res == tagRepo_SoftDelete(db, id, version)
         IN IF res.err = Nil \/ IsVersionConflictError(res.err) THEN res
            ELSE [db |-> db, err |-> Wrap(res.err)]

RestoreTag(db, id, version) ==
    IF id = 0 THEN [db |-> db, err |-> ErrInvalidInput]
    ELSE LET res == tagRepo_Restore(db, id, version)
         IN IF IsVersionConflictError(res.err) THEN res
            ELSE IF res.err # Nil THEN [db |-> db, err |-> Wrap(res.err)]
            ELSE IF tagRepo_GetByID(res.db, id).err # Nil
            THEN [db |-> res.db, err |-> Wrap(tagRepo_GetByID(res.db, id).err)]
            ELSE res

\* CreatorID: "system" is no id of the users table
SystemCreator == -1

FindOrCreateTag(db, name) ==
    LET normalizedName == normalizeTagName(name)
        existing == findTagByName(db, normalizedName)
    IN IF existing # Nil THEN [db |-> db, err |-> Nil, id |-> existing.id]
       ELSE CreateTag(db, [id |-> 0, name |-> normalizedName,
                           color |-> generateDefaultTagColor,
                           creator_id |-> SystemCreator, version |-> 0])

\* ------------------------------------------------------------ the callers
\* last: the most recent call and what it returned;
\* workers: the requests in flight, each at a position inside its handler
VARIABLES last, workers

vars == <<users, tasks, categories, tags, task_categories, task_tags, last, workers>>

Workers == {1, 2}

Idle == [pc |-> "idle"]

Call(op, id, ver, arg, res) == [op |-> op, id |-> id, ver |-> ver, arg |-> arg, err |-> res.err]

Commit(db) ==
    /\ users' = db.users
    /\ tasks' = db.tasks
    /\ categories' = db.categories
    /\ tags' = db.tags
    /\ task_categories' = db.task_categories
    /\ task_tags' = db.task_tags

\* what callers send
Versions == 1..MaxVersion
UserIDs == 0..MaxUsers
TaskIDs == 0..MaxTasks
CategoryIDs == 0..MaxCategories
TagIDs == 0..MaxTags
NameInputs == {"n", ""}
EmailInputs == {"admin@x", "a@x", ""}
RoleInputs == {UserRoleUser, UserRoleAdmin, UserRoleUnspecified, "root"}
StatusInputs == TaskStatuses \cup {""}
PriorityInputs == {"LOW", "HIGH", ""}
TagNameInputs == {<<"a">>, <<"A">>, <<" ", "A", " ">>, <<"a", " ", " ", "b">>, <<"a", "-", "b">>,
                  <<"b">>, <<" ">>, <<"!">>, << >>}
CategoryNameInputs == {<<"a">>, <<"A">>, <<"a", "\\">>, << >>}

\* The database after the migration: its seed, one row per table, the task
\* carrying the category and the tag.  With seeded = FALSE, the same database
\* after the cleanup script removed the recent tasks and their associations.
SeedDB(seeded) ==
    [users |-> <<[id |-> 1, name |-> "n", email |-> "admin@x", role |-> UserRoleAdmin,
                  version |-> 1, is_deleted |-> FALSE]>>,
     categories |-> <<[id |-> 1, name |-> <<"a">>, creator_id |-> 1, version |-> 1,
                       is_deleted |-> FALSE]>>,
     tags |-> <<[id |-> 1, name |-> <<"a">>, color |-> "#EF4444", creator_id |-> 1,
                 version |-> 1, is_deleted |-> FALSE]>>,
     tasks |-> IF seeded
               THEN <<[id |-> 1, title |-> "t", assignee_id |-> 1, status |-> TaskStatusOpen,
                       priority |-> "LOW", version |-> 1, is_deleted |-> FALSE]>>
               ELSE << >>,
     task_categories |-> IF seeded THEN {<<1, 1>>} ELSE {},
     task_tags |-> IF seeded THEN {<<1, 1>>} ELSE {}]

Init ==
    \E seeded \in BOOLEAN :
        /\ users = SeedDB(seeded).users
        /\ tasks = SeedDB(seeded).tasks
        /\ categories = SeedDB(seeded).categories
        /\ tags = SeedDB(seeded).tags
        /\ task_categories = SeedDB(seeded).task_categories
        /\ task_tags = SeedDB(seeded).task_tags
        /\ last = [op |-> "none", id |-> 0, ver |-> 0, arg |-> 0, err |-> Nil]
        /\ workers = [w \in Workers |-> Idle]

\* ------------------------------------------------- calls of the user service
CallCreateUser ==
    \E name \in NameInputs, email \in EmailInputs, role \in RoleInputs :
        LET user == [id |-> 0, name |-> name, email |-> email, role |-> role, version |-> 0]
            res == CreateUser(DB, user)
        IN /\ Len(users) < MaxUsers
           /\ Commit(res.db)
           /\ last' = Call("CreateUser", 0, 0, user, res)
           /\ UNCHANGED workers

CallUpdateUser ==
    \E id \in UserIDs, name \in NameInputs, email \in EmailInputs, role \in RoleInputs,
       version \in Versions :
        LET user == [id |-> id, name |-> name, email |-> email, role |-> role, version |-> version]
            res == UpdateUser(DB, user)
        IN /\ Commit(res.db)
           /\ last' = Call("UpdateUser", id, version, user, res)
           /\ UNCHANGED workers

CallDeleteUser ==
    \E id \in UserIDs, version \in Versions :
        LET res == DeleteUser(DB, id, version)
        IN /\ Commit(res.db)
           /\ last' = Call("DeleteUser", id, version, 0, res)
           /\ UNCHANGED workers

CallRestoreUser ==
    \E id \in UserIDs, version \in Versions :
        LET res == RestoreUser(DB, id, version)
        IN /\ Commit(res.db)
           /\ last' = Call("RestoreUser", id, version, 0, res)
           /\ UNCHANGED workers

CallChangeUserRole ==
    \E id \in UserIDs, role \in RoleInputs, version \in Versions :
        LET res == ChangeUserRole(DB, id, role, version)
        IN /\ Commit(res.db)
           /\ last' = Call("ChangeUserRole", id, version, role, res)
           /\ UNCHANGED workers

CallValidateUserPermissions ==
    \E id \in UserIDs, role \in RoleInputs :
        LET res == [db |-> DB, err |-> ValidateUserPermissions(DB, id, role)]
        IN /\ Commit(res.db)
           /\ last' = Call("ValidateUserPermissions", id, 0, role, res)
           /\ UNCHANGED workers

NextUser ==
    \/ CallCreateUser
    \/ CallUpdateUser
    \/ CallDeleteUser
    \/ CallRestoreUser
    \/ CallChangeUserRole
    \/ CallValidateUserPermissions

SpecUser == Init /\ [][NextUser]_vars

\* ------------------------------------------------- calls of the task service
AssigneeInputs == {0, 1, MaxUsers}

TaskInputs ==
    [title : {"t", ""}, assignee_id : AssigneeInputs, status : StatusInputs,
     priority : {"LOW", ""}]

TaskArg(in, id, version) ==
    [id |-> id, title |-> in.title, assignee_id |-> in.assignee_id, status |-> in.status,
     priority |-> in.priority, version |-> version, is_deleted |-> FALSE]

CallCreateTask ==
    \E in \in TaskInputs :
        LET res == CreateTask(DB, TaskArg(in, 0, 0))
        IN /\ Len(tasks) < MaxTasks
           /\ Commit(res.db)
           /\ last' = Call("CreateTask", 0, 0, in, res)
           /\ UNCHANGED workers

CallUpdateTask ==
    \E id \in TaskIDs, version \in Versions, in \in TaskInputs :
        LET res == UpdateTask(DB, TaskArg(in, id, version))
        IN /\ Commit(res.db)
           /\ last' = Call("UpdateTask", id, version, in, res)
           /\ UNCHANGED workers

CallDeleteTask ==
    \E id \in TaskIDs, version \in Versions :
        LET res == DeleteTask(DB, id, version)
        IN /\ Commit(res.db)
           /\ last' = Call("DeleteTask", id, version, 0, res)
           /\ UNCHANGED workers

CallRestoreTask ==
    \E id \in TaskIDs, version \in Versions :
        LET res == RestoreTask(DB, id, version)
        IN /\ Commit(res.db)
           /\ last' = Call("RestoreTask", id, version, 0, res)
           /\ UNCHANGED workers

CallAssignTask ==
    \E id \in TaskIDs, assigneeID \in AssigneeInputs, version \in Versions :
        LET res == AssignTask(DB, id, assigneeID, version)
        IN /\ Commit(res.db)
           /\ last' = Call("AssignTask", id, version, assigneeID, res)
           /\ UNCHANGED workers

CallChangeTaskStatus ==
    \E id \in TaskIDs, status \in StatusInputs, version \in Versions :
        LET res == ChangeTaskStatus(DB, id, status, version)
        IN /\ Commit(res.db)
           /\ last' = Call("ChangeTaskStatus", id, version, status, res)
           /\ UNCHANGED workers

CallChangeTaskPriority ==
    \E id \in TaskIDs, priority \in PriorityInputs, version \in Versions :
        LET res == ChangeTaskPriority(DB, id, priority, version)
        IN /\ Commit(res.db)
           /\ last' = Call("ChangeTaskPriority", id, version, priority, res)
           /\ UNCHANGED workers

CallAddTaskCategories ==
    \E id \in TaskIDs, ids \in SUBSET (1..MaxCategories), version \in Versions :
        LET res == AddTaskCategories(DB, id, ids, version)
        IN /\ Commit(res.db)
           /\ last' = Call("AddTaskCategories", id, version, ids, res)
           /\ UNCHANGED workers

CallRemoveTaskCategories ==
    \E id \in TaskIDs, ids \in SUBSET (1..MaxCategories), version \in Versions :
        LET res == RemoveTaskCategories(DB, id, ids, version)
        IN /\ Commit(res.db)
           /\ last' = Call("RemoveTaskCategories", id, version, ids, res)
           /\ UNCHANGED workers

CallAddTaskTags ==
    \E id \in TaskIDs, ids \in SUBSET (1..MaxTags), version \in Versions :
        LET res == AddTaskTags(DB, id, ids, version)
        IN /\ Commit(res.db)
           /\ last' = Call("AddTaskTags", id, version, ids, res)
           /\ UNCHANGED workers

CallRemoveTaskTags ==
    \E id \in TaskIDs, ids \in SUBSET (1..MaxTags), version \in Versions :
        LET res == RemoveTaskTags(DB, id, ids, version)
        IN /\ Commit(res.db)
           /\ last' = Call("RemoveTaskTags", id, version, ids, res)
           /\ UNCHANGED workers

NextTask ==
    \/ CallCreateTask
    \/ CallUpdateTask
    \/ CallDeleteTask
    \/ CallRestoreTask
    \/ CallAssignTask
    \/ CallChangeTaskStatus
    \/ CallChangeTaskPriority
    \/ CallAddTaskCategories
    \/ CallRemoveTaskCategories
    \/ CallAddTaskTags
    \/ CallRemoveTaskTags

SpecTask == Init /\ [][NextTask]_vars

\* ------------------------------------- calls of the category and tag services
CreatorInputs == {0, 1}

CallCreateCategory ==
    \E name \in CategoryNameInputs, creator \in CreatorInputs :
        LET category == [id |-> 0, name |-> name, creator_id |-> creator, version |-> 0]
            res == CreateCategory(DB, category)
        IN /\ Len(categories) < MaxCategories
           /\ Commit(res.db)
           /\ last' = Call("CreateCategory", 0, 0, category, res)
           /\ UNCHANGED workers

CallUpdateCategory ==
    \E id \in CategoryIDs, name \in CategoryNameInputs, creator \in CreatorInputs,
       version \in Versions :
        LET category == [id |-> id, name |-> name, creator_id |-> creator, version |-> version]
            res == UpdateCategory(DB, category)
        IN /\ Commit(res.db)
           /\ last' = Call("UpdateCategory", id, version, category, res)
           /\ UNCHANGED workers

CallDeleteCategory ==
    \E id \in CategoryIDs, version \in Versions :
        LET res == DeleteCategory(DB, id, version)
        IN /\ Commit(res.db)
           /\ last' = Call("DeleteCategory", id, version, 0, res)
           /\ UNCHANGED workers

CallRestoreCategory ==
    \E id \in CategoryIDs, version \in Versions :
        LET res == RestoreCategory(DB, id, version)
        IN /\ Commit(res.db)
           /\ last' = Call("RestoreCategory", id, version, 0, res)
           /\ UNCHANGED workers

CallCreateTag ==
    \E name \in TagNameInputs, creator \in CreatorInputs :
        LET tag == [id |-> 0, name |-> name, color |-> "#EF4444", creator_id |-> creator,
                    version |-> 0]
            res == CreateTag(DB, tag)
        IN /\ Len(tags) < MaxTags
           /\ Commit(res.db)
           /\ last' = Call("CreateTag", 0, 0, tag, res)
           /\ UNCHANGED workers

CallUpdateTag ==
    \E id \in TagIDs, name \in TagNameInputs, creator \in CreatorInputs, version \in Versions :
        LET tag == [id |-> id, name |-> name, color |-> "#EF4444", creator_id |-> creator,
                    version |-> version]
            res == UpdateTag(DB, tag)
        IN /\ Commit(res.db)
           /\ last' = Call("UpdateTag", id, version, tag, res)
           /\ UNCHANGED workers

CallDeleteTag ==
    \E id \in TagIDs, version \in Versions :
        LET res == DeleteTag(DB, id, version)
        IN /\ Commit(res.db)
           /\ last' = Call("DeleteTag", id, version, 0, res)
           /\ UNCHANGED workers

CallRestoreTag ==
    \E id \in TagIDs, version \in Versions :
        LET res == RestoreTag(DB, id, version)
        IN /\ Commit(res.db)
           /\ last' = Call("RestoreTag", id, version, 0, res)
           /\ UNCHANGED workers

CallFindOrCreateTag ==
    \E name \in TagNameInputs :
        LET res == FindOrCreateTag(DB, name)
        IN /\ Len(tags) < MaxTags
           /\ Commit(res.db)
           /\ last' = Call("FindOrCreateTag", res.id, 0, name, res)
           /\ UNCHANGED workers

NextCategory ==
    \/ CallCreateCategory
    \/ CallUpdateCategory
    \/ CallDeleteCategory
    \/ CallRestoreCategory

SpecCategory == Init /\ [][NextCategory]_vars

NextTag ==
    \/ CallCreateTag
    \/ CallUpdateTag
    \/ CallDeleteTag
    \/ CallRestoreTag
    \/ CallFindOrCreateTag

SpecTag == Init /\ [][NextTag]_vars

\* deleting a category or a tag around the tasks that use it
NextUsage ==
    \/ CallCreateCategory
    \/ CallCreateTag
    \/ CallCreateTask
    \/ CallDeleteCategory
    \/ CallDeleteTag
    \/ CallRemoveTaskCategories
    \/ CallRemoveTaskTags

SpecUsage == Init /\ [][NextUsage]_vars

\* ------------------------------------------------ calls of the repositories
\* the four repositories share one shape; the entity type is the table name
Entities == {"users", "tasks", "categories", "tags"}

repo_GetByID(entity, db, id) ==
    IF entity = "users" THEN userRepo_GetByID(db, id)
    ELSE IF entity = "tasks" THEN taskRepo_GetByID(db, id)
    ELSE IF entity = "categories" THEN categoryRepo_GetByID(db, id)
    ELSE tagRepo_GetByID(db, id)

repo_Update(entity, db, row) ==
    IF entity = "users" THEN userRepo_Update(db, row)
    ELSE IF entity = "tasks" THEN taskRepo_Update(db, row)
    ELSE IF entity = "categories" THEN categoryRepo_Update(db, row)
    ELSE tagRepo_Update(db, row)

repo_SoftDelete(entity, db, id, version) ==
    IF entity = "users" THEN userRepo_SoftDelete(db, id, version)
    ELSE IF entity = "tasks" THEN taskRepo_SoftDelete(db, id, version)
    ELSE IF entity = "categories" THEN categoryRepo_SoftDelete(db, id, version)
    ELSE tagRepo_SoftDelete(db, id, version)

repo_Restore(entity, db, id, version) ==
    IF entity = "users" THEN userRepo_Restore(db, id, version)
    ELSE IF entity = "tasks" THEN taskRepo_Restore(db, id, version)
    ELSE IF entity = "categories" THEN categoryRepo_Restore(db, id, version)
    ELSE tagRepo_Restore(db, id, version)

RepoGetByID ==
    \E entity \in Entities, id \in TagIDs :
        /\ last' = Call("GetByID", id, 0, entity, repo_GetByID(entity, DB, id))
        /\ UNCHANGED <<users, tasks, categories, tags, task_categories, task_tags, workers>>

\* Update with the entity as it was read, carrying the version the caller holds
RepoUpdate ==
    \E entity \in Entities, id \in TagIDs, version \in Versions :
        LET res == repo_Update(entity, DB, [DB[entity][id] EXCEPT !.version = version])
        IN /\ HasRow(DB[entity], id)
           /\ Commit(res.db)
           /\ last' = Call("Update", id, version, entity, res)
           /\ UNCHANGED workers

RepoSoftDelete ==
    \E entity \in Entities, id \in TagIDs, version \in Versions :
        LET res == repo_SoftDelete(entity, DB, id, version)
        IN /\ Commit(res.db)
           /\ last' = Call("SoftDelete", id, version, entity, res)
           /\ UNCHANGED workers

RepoRestore ==
    \E entity \in Entities, id \in TagIDs, version \in Versions :
        LET res == repo_Restore(entity, DB, id, version)
        IN /\ Commit(res.db)
           /\ last' = Call("Restore", id, version, entity, res)
           /\ UNCHANGED workers

NextRepo ==
    \/ CallCreateTag
    \/ CallCreateTask
    \/ RepoGetByID
    \/ RepoUpdate
    \/ RepoSoftDelete
    \/ RepoRestore

SpecRepo == Init /\ [][NextRepo]_vars

\* ------------------------------------------------ requests running together
\* Each worker serves one request, a repository round trip at a time: it loads
\* the task, checks the request against what it loaded, and writes.

TaskRaceOps == {"ChangeTaskStatus", "AssignTask", "ChangeTaskPriority", "UpdateTask"}

TaskRaceArgs(op) ==
    IF op = "ChangeTaskStatus" THEN StatusInputs
    ELSE IF op = "AssignTask" THEN AssigneeInputs
    ELSE IF op = "ChangeTaskPriority" THEN PriorityInputs
    ELSE {[title |-> "t", assignee_id |-> 1, status |-> TaskStatusOpen, priority |-> "HIGH"],
          [title |-> "", assignee_id |-> 1, status |-> TaskStatusOpen, priority |-> "LOW"]}

\* the entity the handler hands to UpdateTask, or the error it returns before that
ApplyTaskChange(op, task, arg, version) ==
    IF op = "UpdateTask" THEN [err |-> Nil, task |-> TaskArg(arg, task.id, version)]
    ELSE IF task.version # version THEN [err |-> ErrVersionConflict, task |-> task]
    ELSE IF op = "ChangeTaskStatus"
    THEN [err |-> validateStatusTransition(task.status, arg),
          task |-> [task EXCEPT !.status = arg]]
    ELSE IF op = "AssignTask"
    THEN [err |-> validateAssignee(DB, arg), task |-> [task EXCEPT !.assignee_id = arg]]
    ELSE [err |-> Nil, task |-> [task EXCEPT !.priority = arg]]

\* taskRepo.GetByID at the head of the handler; the caller of UpdateTask has
\* read the task itself and sends the whole entity with the version it saw
TaskLoad(w) ==
    \E op \in TaskRaceOps, id \in TaskIDs \ {0}, version \in Versions :
        \E arg \in TaskRaceArgs(op) :
            LET got == taskRepo_GetByID(DB, id)
                req == [op |-> op, id |-> id, ver |-> version, arg |-> arg]
            IN /\ workers[w].pc = "idle"
               /\ workers' = [workers EXCEPT ![w] =
                     IF got.err # Nil
                     THEN [pc |-> "done", req |-> req, fresh |-> FALSE, err |-> Wrap(got.err)]
                     ELSE [pc |-> "loaded", req |-> req, task |-> got.row,
                           fresh |-> got.row.version = version]]
               /\ UNCHANGED <<users, tasks, categories, tags, task_categories, task_tags, last>>

\* the version compare, the rule of the operation, then UpdateTask's own
\* validation and assignee lookup
TaskCheck(w) ==
    LET me == workers[w]
        change == ApplyTaskChange(me.req.op, me.task, me.req.arg, me.req.ver)
        err == IF change.err # Nil THEN change.err
               ELSE IF validateTaskForUpdate(change.task) # Nil
               THEN validateTaskForUpdate(change.task)
               ELSE validateAssignee(DB, change.task.assignee_id)
    IN /\ me.pc = "loaded"
       /\ workers' = [workers EXCEPT ![w] =
             IF err # Nil THEN [pc |-> "done", req |-> me.req, fresh |-> me.fresh, err |-> err]
             ELSE [pc |-> "checked", req |-> me.req, task |-> change.task, fresh |-> me.fresh]]
       /\ UNCHANGED <<users, tasks, categories, tags, task_categories, task_tags, last>>

\* taskRepo.Update, the conditional write
TaskWrite(w) ==
    LET me == workers[w]
        res == taskRepo_Update(DB, me.task)
        err == IF res.err = Nil \/ IsVersionConflictError(res.err) THEN res.err
               ELSE Wrap(res.err)
    IN /\ me.pc = "checked"
       /\ Commit(res.db)
       /\ workers' = [workers EXCEPT ![w] =
             [pc |-> "done", req |-> me.req, fresh |-> me.fresh, err |-> err]]
       /\ last' = Call(me.req.op, me.req.id, me.req.ver, me.req.arg, [err |-> err])

NextTaskRace ==
    \/ \E w \in Workers : TaskLoad(w)
    \/ \E w \in Workers : TaskCheck(w)
    \/ \E w \in Workers : TaskWrite(w)

SpecTaskRace == Init /\ [][NextTaskRace]_vars

\* DeleteUser and ChangeUserRole a round trip at a time: the checks up to the
\* admin count, then the conditional write
UserRaceOps == {"DeleteUser", "ChangeUserRole"}

\* the error the handler returns before it writes, and the entity it would write
CheckUserChange(db, op, id, version) ==
    LET got == userRepo_GetByID(db, id)
    IN IF op = "DeleteUser" THEN [err |-> validateUserForDeletion(db, id), user |-> got.row]
       ELSE IF got.err # Nil THEN [err |-> Wrap(got.err), user |-> got.row]
       ELSE IF got.row.version # version THEN [err |-> ErrVersionConflict, user |-> got.row]
       ELSE [err |-> validateRoleChange(db, got.row, UserRoleUser),
             user |-> [got.row EXCEPT !.role = UserRoleUser]]

UserCheck(w) ==
    \E op \in UserRaceOps, id \in UserIDs \ {0}, version \in Versions :
        LET check == CheckUserChange(DB, op, id, version)
            req == [op |-> op, id |-> id, ver |-> version, arg |-> UserRoleUser]
        IN /\ workers[w].pc = "idle"
           /\ workers' = [workers EXCEPT ![w] =
                 IF check.err # Nil
                 THEN [pc |-> "done", req |-> req, err |-> check.err, raced |-> FALSE]
                 ELSE [pc |-> "checked", req |-> req, user |-> check.user,
                       raced |-> \E o \in Workers \ {w} : workers[o].pc = "checked"]]
           /\ UNCHANGED <<users, tasks, categories, tags, task_categories, task_tags, last>>

UserWrite(w) ==
    LET me == workers[w]
        res == IF me.req.op = "DeleteUser"
               THEN userRepo_SoftDelete(DB, me.req.id, me.req.ver)
               ELSE UpdateUser(DB, me.user)
        err == IF res.err = Nil \/ IsVersionConflictError(res.err) \/ me.req.op # "DeleteUser"
               THEN res.err
               ELSE Wrap(res.err)
    IN /\ me.pc = "checked"
       /\ Commit(res.db)
       /\ workers' = [workers EXCEPT ![w] =
             [pc |-> "done", req |-> me.req, err |-> err, raced |-> me.raced]]
       /\ last' = Call(me.req.op, me.req.id, me.req.ver, me.req.arg, [err |-> err])

NextAdminRace ==
    \/ CallCreateUser
    \/ \E w \in Workers : UserCheck(w)
    \/ \E w \in Workers : UserWrite(w)

SpecAdminRace == Init /\ [][NextAdminRace]_vars

\* ------------------------------------------------------------------ claims
\* a call of UpdateTask that passes every check made before the conditional write
ValidTaskUpdate(db, in) ==
    /\ in.title # ""
    /\ in.status \in TaskStatuses
    /\ in.priority \in TaskPriorities
    /\ userRepo_GetByID(db, in.assignee_id).err = Nil

\* the step is a call of ChangeTaskStatus or UpdateTask on the stored, non-deleted
\* task id, with a request that is acceptable but for its version
MutatesTask(id) ==
    /\ HasRow(tasks, id)
    /\ ~tasks[id].is_deleted
    /\ last'.id = id
    /\ \/ last'.op = "ChangeTaskStatus" /\ last'.arg \in validTransitions(tasks[id].status)
       \/ last'.op = "UpdateTask" /\ ValidTaskUpdate(DB, last'.arg)

\* C1: for a task stored at version N, a mutation presenting N succeeds and
\* leaves the stored version at N+1; a mutation presenting any other version
\* fails with VersionConflict and does not change the stored record.
C1_OptimisticLockCorrectness ==
    [][\A id \in TaskIDs :
          MutatesTask(id) =>
              IF last'.ver = tasks[id].version
              THEN last'.err = Nil /\ tasks'[id].version = tasks[id].version + 1
              ELSE IsVersionConflictError(last'.err) /\ tasks' = tasks]_vars

\* C1, the half the code keeps: a stale version is answered with VersionConflict
\* and nothing is written.
C1_StaleVersionRejected ==
    [][\A id \in TaskIDs :
          MutatesTask(id) /\ last'.ver # tasks[id].version =>
              IsVersionConflictError(last'.err) /\ tasks' = tasks]_vars

\* C1, what the code does with the current version: the BEFORE UPDATE trigger
\* rejects the write, the call returns a wrapped storage error, nothing changes.
C1_CurrentVersionRejected ==
    [][\A id \in TaskIDs :
          MutatesTask(id) /\ last'.ver = tasks[id].version =>
              last'.err = Wrap(StorageError) /\ tasks' = tasks]_vars

\* both workers served a mutation of the same task, each presenting the version
\* that was stored when it loaded the task, each passing its checks
RacedOnTask ==
    /\ \A w \in Workers : workers[w].pc = "done" /\ workers[w].fresh
    /\ workers[1].req.id = workers[2].req.id
    /\ \A w \in Workers : ~IsBusinessRuleError(workers[w].err)
                          /\ ~IsInvalidInputError(workers[w].err)

\* C2: two service mutations of one task that both observed version N: in every
\* interleaving exactly one succeeds and the other returns VersionConflict.
C2_ExactlyOneWins ==
    RacedOnTask =>
        \E w \in Workers :
            /\ workers[w].err = Nil
            /\ \A o \in Workers \ {w} : IsVersionConflictError(workers[o].err)

\* C2, what the code does: neither request wins, both come back with the
\* wrapped storage error of the rejected write.
C2_NobodyWins ==
    RacedOnTask => \A w \in Workers : workers[w].err = Wrap(StorageError)

\* the non-deleted admin users, read off the table
Admins == {i \in 1..Len(users) : ~users[i].is_deleted /\ users[i].role = UserRoleAdmin}

\* the step is DeleteUser(id, current version) or ChangeUserRole(id, user,
\* current version) on a non-deleted admin
TouchesAdmin(id) ==
    /\ id \in Admins
    /\ last'.id = id
    /\ last'.ver = users[id].version
    /\ \/ last'.op = "DeleteUser"
       \/ last'.op = "ChangeUserRole" /\ last'.arg = UserRoleUser

\* C6: with exactly one non-deleted admin, DeleteUser and ChangeUserRole(user)
\* on it fail with BusinessRuleViolation and leave the user unchanged; with two
\* non-deleted admins each of the two calls succeeds.
C6_LastAdminProtection ==
    [][\A id \in UserIDs :
          TouchesAdmin(id) =>
              /\ Cardinality(Admins) = 1 => IsBusinessRuleError(last'.err) /\ users' = users
              /\ Cardinality(Admins) = 2 =>
                    /\ last'.err = Nil
                    /\ IF last'.op = "DeleteUser" THEN users'[id].is_deleted
                       ELSE users'[id].role = UserRoleUser]_vars

\* C6, the half the code keeps: the last admin is protected.
C6_LastAdminRejected ==
    [][\A id \in UserIDs :
          TouchesAdmin(id) /\ Cardinality(Admins) = 1 =>
              IsBusinessRuleError(last'.err) /\ users' = users]_vars

Rank(role) == IF role = UserRoleAdmin THEN 2 ELSE 1

\* C9: for a non-deleted user and a required role in {user, admin},
\* ValidateUserPermissions succeeds iff rank(role of the user) >= rank(required
\* role) and fails with PermissionDenied otherwise; for an id with no
\* non-deleted user it returns the lookup error.
C9_PermissionCheck ==
    last.op = "ValidateUserPermissions" =>
        IF HasRow(users, last.id) /\ ~users[last.id].is_deleted
        THEN last.arg \in {UserRoleUser, UserRoleAdmin} =>
                 IF Rank(users[last.id].role) >= Rank(last.arg) THEN last.err = Nil
                 ELSE last.err = ErrPermissionDenied
        ELSE last.err.type = "NOT_FOUND"

\* C9: a user of role user was asked for the role admin and denied, in a
\* database where an admin asked for the same passes.
C9_UserDeniedAdmin ==
    /\ last.op = "ValidateUserPermissions"
    /\ last.arg = UserRoleAdmin
    /\ HasRow(users, last.id)
    /\ users[last.id].role = UserRoleUser
    /\ last.err = ErrPermissionDenied
    /\ ValidateUserPermissions(DB, 1, UserRoleAdmin) = Nil

\* the step is a repository call op on the stored row id of the table entity
RepoStep(op, entity, id) ==
    /\ last'.op = op
    /\ last'.arg = entity
    /\ last'.id = id
    /\ HasRow(DB[entity], id)

\* C3: for every entity type, each successful repository Update, SoftDelete or
\* Restore raises the stored version of the record by exactly 1.
C3_VersionMonotonicity ==
    [][\A entity \in Entities, id \in TagIDs, op \in {"Update", "SoftDelete", "Restore"} :
          RepoStep(op, entity, id) /\ last'.err = Nil =>
              DB'[entity][id].version = DB[entity][id].version + 1]_vars

\* C3: no repository Update, SoftDelete or Restore has succeeded.
C3_NoSuccessfulMutation == last.op \in {"Update", "SoftDelete", "Restore"} => last.err # Nil

\* C4: for a non-deleted entity at version v, SoftDelete(id, v) succeeds and
\* GetByID(id) then returns NotFound; a following Restore(id, v+1) succeeds and
\* GetByID(id) then returns the original content, not deleted, at version v+2.
C4_SoftDeleteRoundTrip ==
    [][\A entity \in Entities, id \in TagIDs :
          (/\ RepoStep("SoftDelete", entity, id)
           /\ ~DB[entity][id].is_deleted
           /\ last'.ver = DB[entity][id].version) =>
              LET v == DB[entity][id].version
                  restored == repo_Restore(entity, DB', id, v + 1)
              IN /\ last'.err = Nil
                 /\ repo_GetByID(entity, DB', id).err = ErrNotFound
                 /\ restored.err = Nil
                 /\ repo_GetByID(entity, restored.db, id).row
                        = [DB[entity][id] EXCEPT !.version = v + 2]]_vars

\* C4, what the code does: SoftDelete with the current version is rejected by
\* the trigger and GetByID still returns the entity.
C4_SoftDeleteRejected ==
    [][\A entity \in Entities, id \in TagIDs :
          (/\ RepoStep("SoftDelete", entity, id)
           /\ ~DB[entity][id].is_deleted
           /\ last'.ver = DB[entity][id].version) =>
              /\ last'.err = Wrap(StorageError)
              /\ repo_GetByID(entity, DB', id).row = DB[entity][id]]_vars

\* the status transition table, as pairs (current, requested)
TransitionTable ==
    ({TaskStatusOpen} \X {TaskStatusInProgress, TaskStatusCompleted, TaskStatusCancelled})
    \cup ({TaskStatusInProgress} \X {TaskStatusCompleted, TaskStatusOpen, TaskStatusCancelled})
    \cup ({TaskStatusCompleted, TaskStatusCancelled} \X {TaskStatusOpen, TaskStatusInProgress})

\* the step is ChangeTaskStatus on the non-deleted task id with its current
\* version and one of the four statuses
ChangesStatus(id) ==
    /\ HasRow(tasks, id)
    /\ ~tasks[id].is_deleted
    /\ last'.op = "ChangeTaskStatus"
    /\ last'.id = id
    /\ last'.ver = tasks[id].version
    /\ last'.arg \in TaskStatuses

\* C5: for all 16 (current, requested) pairs, ChangeTaskStatus with the current
\* version succeeds iff the pair is in the table; every other pair fails with
\* BusinessRuleViolation and leaves status and version unchanged.
C5_TransitionTableComplete ==
    [][\A id \in TaskIDs :
          ChangesStatus(id) =>
              IF <<tasks[id].status, last'.arg>> \in TransitionTable
              THEN last'.err = Nil /\ tasks'[id].status = last'.arg
              ELSE IsBusinessRuleError(last'.err) /\ tasks'[id] = tasks[id]]_vars

\* C5, what the code does: a pair outside the table is answered with
\* BusinessRuleViolation, a pair inside it reaches the write, which the trigger
\* rejects; the task is unchanged either way.
C5_TableDecidesValidation ==
    [][\A id \in TaskIDs :
          ChangesStatus(id) =>
              /\ tasks'[id] = tasks[id]
              /\ IF <<tasks[id].status, last'.arg>> \in TransitionTable
                 THEN last'.err = Wrap(StorageError)
                 ELSE IsBusinessRuleError(last'.err)]_vars

\* the non-deleted tasks associated with id in a junction relation
ReferencedBy(junction, id) ==
    {t \in 1..Len(tasks) : ~tasks[t].is_deleted /\ <<t, id>> \in junction}

\* the step is the delete operation op on the non-deleted row id with its current version
DeletesUsed(op, table, id) ==
    /\ last'.op = op
    /\ last'.id = id
    /\ HasRow(table, id)
    /\ ~table[id].is_deleted
    /\ last'.ver = table[id].version

\* C8: DeleteCategory and DeleteTag with the current version fail with
\* BusinessRuleViolation when a non-deleted task references the entity and
\* soft-delete it when none does, whether or not other tasks exist.
C8_UsageGuard ==
    [][/\ \A id \in CategoryIDs :
             DeletesUsed("DeleteCategory", categories, id) =>
                 IF ReferencedBy(task_categories, id) # {}
                 THEN IsBusinessRuleError(last'.err) /\ categories' = categories
                 ELSE last'.err = Nil /\ categories'[id].is_deleted
       /\ \A id \in TagIDs :
             DeletesUsed("DeleteTag", tags, id) =>
                 IF ReferencedBy(task_tags, id) # {}
                 THEN IsBusinessRuleError(last'.err) /\ tags' = tags
                 ELSE last'.err = Nil /\ tags'[id].is_deleted]_vars

\* C8, what the code does: the count it takes is the number of all non-deleted
\* tasks, so the delete is refused as soon as any task exists, and with no
\* task at all the soft delete is rejected by the trigger.
C8_GuardCountsEveryTask ==
    [][\A id \in TagIDs :
          DeletesUsed("DeleteCategory", categories, id) \/ DeletesUsed("DeleteTag", tags, id) =>
              /\ categories' = categories
              /\ tags' = tags
              /\ IF \E t \in 1..Len(tasks) : ~tasks[t].is_deleted
                 THEN IsBusinessRuleError(last'.err)
                 ELSE last'.err = Wrap(StorageError)]_vars

\* the normal form of a tag name in one pass over its characters: spaces before
\* the first word and after the last are dropped, each run of spaces between
\* two words becomes one hyphen, letters are lowercased
RECURSIVE NormalFrom(_, _)
NormalFrom(name, at) ==
    IF name = << >> THEN << >>
    ELSE IF Head(name) = " " THEN NormalFrom(Tail(name), IF at = "start" THEN "start" ELSE "gap")
    ELSE (IF at = "gap" THEN <<"-">> ELSE << >>)
         \o <<IF Head(name) = "A" THEN "a" ELSE IF Head(name) = "B" THEN "b" ELSE Head(name)>>
         \o NormalFrom(Tail(name), "word")

NormalForm(name) == NormalFrom(name, "start")

\* a non-deleted tag other than id holds the name
HeldByOther(id, name) ==
    \E i \in 1..Len(tags) : i # id /\ ~tags[i].is_deleted /\ tags[i].name = name

\* the step is a CreateTag or an UpdateTag (of a stored, non-deleted tag, with
\* its current version) whose entity carries a creator and a name of allowed
\* characters with at least one word in it
WritesTagName(op, id) ==
    /\ last'.op = op
    /\ last'.id = id
    /\ last'.arg.creator_id # 0
    /\ \A i \in 1..Len(last'.arg.name) : last'.arg.name[i] \in TagNameChars
    /\ NormalForm(last'.arg.name) # << >>
    /\ op = "UpdateTag" =>
           HasRow(tags, id) /\ ~tags[id].is_deleted /\ last'.ver = tags[id].version

\* C10: CreateTag and UpdateTag store the name in normal form, and a create or
\* rename whose normal form is the name of another non-deleted tag fails with
\* Conflict.
C10_NormalizedBeforeUnique ==
    [][/\ WritesTagName("CreateTag", 0) =>
             IF HeldByOther(0, NormalForm(last'.arg.name))
             THEN IsConflictError(last'.err) /\ tags' = tags
             ELSE /\ last'.err = Nil
                  /\ Len(tags') = Len(tags) + 1
                  /\ tags'[Len(tags')].name = NormalForm(last'.arg.name)
       /\ \A id \in TagIDs :
             WritesTagName("UpdateTag", id) =>
                 IF HeldByOther(id, NormalForm(last'.arg.name))
                 THEN IsConflictError(last'.err) /\ tags' = tags
                 ELSE last'.err = Nil /\ tags'[id].name = NormalForm(last'.arg.name)]_vars

\* C10, what the code does: CreateTag is as claimed, and so is the Conflict of
\* a colliding rename; a rename that does not collide is rejected by the
\* trigger and stores nothing.
C10_RenameStoresNothing ==
    [][/\ WritesTagName("CreateTag", 0) =>
             IF HeldByOther(0, NormalForm(last'.arg.name))
             THEN IsConflictError(last'.err) /\ tags' = tags
             ELSE /\ last'.err = Nil
                  /\ Len(tags') = Len(tags) + 1
                  /\ tags'[Len(tags')].name = NormalForm(last'.arg.name)
       /\ \A id \in TagIDs :
             WritesTagName("UpdateTag", id) =>
                 /\ tags' = tags
                 /\ IF HeldByOther(id, NormalForm(last'.arg.name))
                    THEN IsConflictError(last'.err)
                    ELSE last'.err = Wrap(StorageError)]_vars

\* a name of allowed characters with at least one word in it
ValidTagName(name) ==
    /\ \A i \in 1..Len(name) : name[i] \in TagNameChars
    /\ NormalForm(name) # << >>

\* the non-deleted tags of the table that carry the name
TagsNamed(table, name) ==
    {i \in 1..Len(table) : ~table[i].is_deleted /\ table[i].name = name}

\* the step is a FindOrCreateTag that follows a FindOrCreateTag, the two names
\* valid and of the same normal form
SecondFindOrCreate ==
    /\ last.op = "FindOrCreateTag"
    /\ last'.op = "FindOrCreateTag"
    /\ ValidTagName(last.arg)
    /\ ValidTagName(last'.arg)
    /\ NormalForm(last.arg) = NormalForm(last'.arg)

\* C11: FindOrCreateTag called with one name and then with a name of the same
\* normal form returns, on the second call, the tag id the first call returned,
\* and afterwards at most one non-deleted tag carries that normal form.
C11_FindOrCreateIdempotent ==
    [][SecondFindOrCreate =>
           /\ last'.err = Nil
           /\ last'.id # 0
           /\ last'.id = last.id
           /\ Cardinality(TagsNamed(tags', NormalForm(last'.arg))) <= 1]_vars

\* C11, what the code does: a name whose normal form a non-deleted tag carries
\* yields that tag's id, twice; a name no tag carries yields an error, twice,
\* since the tag to create names a creator that is no user; no tag is stored.
C11_FindsButNeverCreates ==
    [][SecondFindOrCreate =>
           /\ tags' = tags
           /\ Cardinality(TagsNamed(tags, NormalForm(last'.arg))) <= 1
           /\ IF TagsNamed(tags, NormalForm(last'.arg)) # {}
              THEN last'.err = Nil /\ last'.id = last.id
                   /\ last'.id \in TagsNamed(tags, NormalForm(last'.arg))
              ELSE last'.err = Wrap(StorageError) /\ last.err = Wrap(StorageError)]_vars

\* no two non-deleted rows of the table agree on the field
UniqueAmongLive(table, field) ==
    \A i, j \in 1..Len(table) :
        i # j /\ ~table[i].is_deleted /\ ~table[j].is_deleted => table[i][field] # table[j][field]

\* C12: after any sequence of service calls no two non-deleted categories share
\* a name, no two non-deleted tags share a name, and no two non-deleted users
\* share an email.
C12_UniquenessInvariant ==
    /\ UniqueAmongLive(categories, "name")
    /\ UniqueAmongLive(tags, "name")
    /\ UniqueAmongLive(users, "email")

\* C12, what the code does: tag names and user emails stay unique, and two
\* non-deleted categories share a name only if the name holds a backslash, the
\* escape character of the ILIKE pattern of findCategoryByName.
C12_UniqueButForEscapes ==
    /\ UniqueAmongLive(tags, "name")
    /\ UniqueAmongLive(users, "email")
    /\ \A i, j \in 1..Len(categories) :
          /\ i # j
          /\ ~categories[i].is_deleted
          /\ ~categories[j].is_deleted
          /\ categories[i].name = categories[j].name
          => \E k \in 1..Len(categories[i].name) : categories[i].name[k] = "\\"

\* CreateUser, CreateCategory and CreateTag a round trip at a time: validation
\* and the lookup for a holder of the unique value, then the INSERT
CreateRaceOps == {"CreateUser", "CreateCategory", "CreateTag"}

CreateRaceArgs(op) ==
    IF op = "CreateUser"
    THEN {[id |-> 0, name |-> "n", email |-> e, role |-> UserRoleUser, version |-> 0] :
             e \in {"a@x", "b@x"}}
    ELSE IF op = "CreateCategory"
    THEN {[id |-> 0, name |-> <<"b">>, creator_id |-> c, version |-> 0] : c \in {1, 2}}
    ELSE {[id |-> 0, name |-> n, color |-> "#EF4444", creator_id |-> c, version |-> 0] :
             n \in {<<"b">>, <<"B">>}, c \in {1, 2}}

\* the table an operation inserts into and the column that is to be unique
CreateTable(db, op) ==
    IF op = "CreateUser" THEN db.users
    ELSE IF op = "CreateCategory" THEN db.categories
    ELSE db.tags

UniqueValue(op, entity) == IF op = "CreateUser" THEN entity.email ELSE entity.name

\* the error the handler returns before it inserts, and the entity it would insert
CheckCreate(db, op, entity) ==
    IF op = "CreateUser"
    THEN [err |-> IF validateUserForCreation(entity) # Nil THEN validateUserForCreation(entity)
                  ELSE IF userRepo_GetByEmail(db, entity.email).err = Nil THEN ErrConflict
                  ELSE Nil,
          entity |-> entity]
    ELSE IF op = "CreateCategory"
    THEN [err |-> IF validateCategoryForCreation(entity) # Nil
                  THEN validateCategoryForCreation(entity)
                  ELSE IF findCategoryByName(db, entity.name) # Nil THEN ErrConflict
                  ELSE Nil,
          entity |-> entity]
    ELSE LET normalized == [entity EXCEPT !.name = normalizeTagName(entity.name)]
         IN [err |-> IF validateTagForCreation(entity) # Nil THEN validateTagForCreation(entity)
                     ELSE IF findTagByName(db, normalized.name) # Nil THEN ErrConflict
                     ELSE Nil,
             entity |-> normalized]

\* the INSERT of the repository and the error the handler makes of its failure
WriteCreate(db, op, entity) ==
    LET res == IF op = "CreateUser" THEN userRepo_Create(db, entity)
               ELSE IF op = "CreateCategory" THEN categoryRepo_Create(db, entity)
               ELSE tagRepo_Create(db, entity)
    IN IF res.err # Nil THEN [db |-> db, err |-> Wrap(res.err)] ELSE [db |-> res.db, err |-> Nil]

CreateCheck(w) ==
    \E op \in CreateRaceOps :
        \E entity \in CreateRaceArgs(op) :
            LET check == CheckCreate(DB, op, entity)
                req == [op |-> op, id |-> 0, ver |-> 0, arg |-> entity]
                ahead == {o \in Workers \ {w} :
                             workers[o].pc = "prechecked" /\ workers[o].req.op = op}
            IN /\ workers[w].pc = "idle"
               /\ workers' = [workers EXCEPT ![w] =
                     IF check.err # Nil
                     THEN [pc |-> "done", req |-> req, err |-> check.err, raced |-> FALSE]
                     ELSE [pc |-> "prechecked", req |-> req, entity |-> check.entity,
                           raced |-> \E o \in ahead :
                                        UniqueValue(op, workers[o].entity)
                                            = UniqueValue(op, check.entity)]]
               /\ UNCHANGED <<users, tasks, categories, tags, task_categories, task_tags, last>>

CreateWrite(w) ==
    LET me == workers[w]
        res == WriteCreate(DB, me.req.op, me.entity)
    IN /\ me.pc = "prechecked"
       /\ Commit(res.db)
       /\ workers' = [workers EXCEPT ![w] =
             [pc |-> "done", req |-> me.req, entity |-> me.entity, err |-> res.err,
              raced |-> me.raced]]
       /\ last' = Call(me.req.op, 0, 0, me.req.arg, res)

NextCreateRace ==
    \/ CallCreateUser
    \/ \E w \in Workers : CreateCheck(w)
    \/ \E w \in Workers : CreateWrite(w)

SpecCreateRace == Init /\ [][NextCreateRace]_vars

\* the two workers are done, and the second to look found the first between its
\* lookup and its INSERT, about to insert the same unique value
CreatesRaced ==
    /\ \A w \in Workers : workers[w].pc = "done"
    /\ \E w \in Workers : workers[w].raced

\* the non-deleted rows that hold the unique value a worker was to insert
HoldersOf(w) ==
    LET op == workers[w].req.op
        table == CreateTable(DB, op)
    IN {i \in 1..Len(table) :
           /\ ~table[i].is_deleted
           /\ UniqueValue(op, table[i]) = UniqueValue(op, workers[w].entity)}

\* C13: when two creates of the same unique value both pass the lookup before
\* either inserts, exactly one record is stored, one call succeeds and the
\* other returns an error for which IsConflictError holds.
C13_RaceYieldsConflict ==
    CreatesRaced =>
        /\ \A w \in Workers : Cardinality(HoldersOf(w)) = 1
        /\ \E w \in Workers :
              /\ workers[w].err = Nil
              /\ \A o \in Workers \ {w} : IsConflictError(workers[o].err)

\* C13, what the code does: no racing create returns a Conflict.  The second
\* INSERT either succeeds, and each success leaves a row holding the value, or
\* is rejected by a constraint, and the call returns the wrapped storage error.
C13_RaceNeverConflict ==
    CreatesRaced =>
        \A w \in Workers :
            /\ ~IsConflictError(workers[w].err)
            /\ \/ workers[w].err = Nil
               \/ workers[w].err = Wrap(StorageError)
            /\ Cardinality(HoldersOf(w)) >= Cardinality({o \in Workers : workers[o].err = Nil})

\* the step is a create of a valid entity that follows a delete of the stored
\* entity holding the same unique value, a delete no rule of the service refused
CreatesAfterDelete(deleteOp, createOp, table, field) ==
    /\ last.op = deleteOp
    /\ last.err \in {Nil, Wrap(StorageError)}
    /\ HasRow(table, last.id)
    /\ last'.op = createOp
    /\ last'.arg[field] = table[last.id][field]
    /\ IF createOp = "CreateUser"
       THEN last'.arg.name # "" /\ last'.arg.role \in {UserRoleUser, UserRoleAdmin}
       ELSE HasRow(users, last'.arg.creator_id)

\* C14: once a user, category or tag has been soft-deleted, a create with the
\* same email (user) or the same name (category, tag) succeeds.
C14_ReuseAfterSoftDelete ==
    [][/\ CreatesAfterDelete("DeleteUser", "CreateUser", users, "email") =>
              last'.err = Nil /\ Len(users') = Len(users) + 1
       /\ CreatesAfterDelete("DeleteCategory", "CreateCategory", categories, "name") =>
              last'.err = Nil /\ Len(categories') = Len(categories) + 1
       /\ CreatesAfterDelete("DeleteTag", "CreateTag", tags, "name") =>
              last'.err = Nil /\ Len(tags') = Len(tags) + 1]_vars

\* C14, what the code does, for users: the delete stores nothing, the user is
\* still there and not deleted, and the create is refused with Conflict.
C14_EmailStaysTaken ==
    [][CreatesAfterDelete("DeleteUser", "CreateUser", users, "email") =>
           ~users[last.id].is_deleted /\ IsConflictError(last'.err) /\ users' = users]_vars

\* the rows a List of the repository returns on its first page
Listed(entity, db, includeDeleted) ==
    IF entity = "users" THEN userRepo_List(db, includeDeleted, 0, 0).items
    ELSE IF entity = "tasks"
         THEN taskRepo_List(db, [TaskListOptions(0, {}, {}) EXCEPT
                                     !.IncludeDeleted = includeDeleted]).items
    ELSE IF entity = "categories" THEN categoryRepo_List(db, includeDeleted, << >>, 0, 0).items
    ELSE tagRepo_List(db, includeDeleted, << >>, 0, 0).items

\* C15: while a row is soft-deleted, GetByID for its id returns NotFound, List
\* without includeDeleted does not return it, and List with includeDeleted does.
C15_DeletedRowsInvisible ==
    \A entity \in Entities :
        \A id \in 1..Len(DB[entity]) :
            DB[entity][id].is_deleted =>
                /\ IsNotFoundError(repo_GetByID(entity, DB, id).err)
                /\ \A k \in 1..Len(Listed(entity, DB, FALSE)) :
                      Listed(entity, DB, FALSE)[k].id # id
                /\ \E k \in 1..Len(Listed(entity, DB, TRUE)) :
                      Listed(entity, DB, TRUE)[k].id = id

\* C15, what the code does: no row of any table is ever soft-deleted, since no
\* SoftDelete succeeds; the case of the claim never arises.
C15_NoRowIsEverDeleted ==
    \A entity \in Entities : \A id \in 1..Len(DB[entity]) : ~DB[entity][id].is_deleted

\* the error reported by the first repository call a task operation makes for a
\* task id and a version, or Nil when the operation returns before any call
FirstRepoError(op, db, id, version) ==
    IF op \in {"AssignTask", "ChangeTaskStatus", "ChangeTaskPriority"}
    THEN taskRepo_GetByID(db, id).err
    ELSE IF op = "DeleteTask" /\ id # 0 THEN taskRepo_SoftDelete(db, id, version).err
    ELSE IF op = "RestoreTask" /\ id # 0 THEN taskRepo_Restore(db, id, version).err
    ELSE Nil

\* C16: when the repository call made by a service operation reports NotFound or
\* VersionConflict, the error the operation returns satisfies IsNotFoundError or
\* IsVersionConflictError respectively.
C16_RepositoryErrorsPassThrough ==
    [][\A id \in TaskIDs \ {0} :
          last'.id = id =>
              LET reported == FirstRepoError(last'.op, DB, id, last'.ver)
              IN /\ IsNotFoundError(reported) => IsNotFoundError(last'.err)
                 /\ IsVersionConflictError(reported) => IsVersionConflictError(last'.err)]_vars

\* C16, the half the code keeps: a VersionConflict reported by the repository is
\* returned as it is.
C16_VersionConflictPassesThrough ==
    [][\A id \in TaskIDs \ {0} :
          last'.id = id =>
              LET reported == FirstRepoError(last'.op, DB, id, last'.ver)
              IN IsVersionConflictError(reported) => last'.err = reported]_vars

\* C16, what the code does with NotFound: the lookup's error is wrapped with
\* "failed to get task", and the typed predicate no longer recognises it.
C16_NotFoundIsWrapped ==
    [][\A id \in TaskIDs \ {0} :
          last'.id = id =>
              LET reported == FirstRepoError(last'.op, DB, id, last'.ver)
              IN IsNotFoundError(reported) =>
                     last'.err = Wrap(ErrNotFound) /\ ~IsNotFoundError(last'.err)]_vars

\* the typed-error predicate that matches a kind of domain error
KindHolds(kind, e) ==
    IF kind = "NOT_FOUND" THEN IsNotFoundError(e)
    ELSE IF kind = "VERSION_CONFLICT" THEN IsVersionConflictError(e)
    ELSE IF kind = "BUSINESS_RULE_VIOLATION" THEN IsBusinessRuleError(e)
    ELSE IF kind = "CONFLICT" THEN IsConflictError(e)
    ELSE IF kind = "INVALID_INPUT" THEN IsInvalidInputError(e)
    ELSE TRUE

\* C17: when the error a call returns is a domain error wrapped with a contextual
\* message, the typed-error predicate of the wrapped error's kind still holds on it.
C17_WrappedErrorsKeepKind ==
    last.err.wrapped => KindHolds(last.err.type, last.err)

\* C17, what the user service returns wrapped: the NotFound of a failed lookup or
\* a storage error, neither recognised by any typed-error predicate.
C17_WrappedErrorsAreUntyped ==
    last.err.wrapped =>
        /\ last.err.type \in {"NOT_FOUND", "STORAGE"}
        /\ \A kind \in {"NOT_FOUND", "VERSION_CONFLICT", "BUSINESS_RULE_VIOLATION", "CONFLICT",
                        "INVALID_INPUT"} : ~KindHolds(kind, last.err)

\* the task mutations that compare the caller's version with the loaded task's
FailFastOps ==
    {"AssignTask", "ChangeTaskStatus", "ChangeTaskPriority", "AddTaskCategories",
     "RemoveTaskCategories", "AddTaskTags", "RemoveTaskTags"}

\* the step is a call of one of these operations on the stored, non-deleted task
\* id with a version other than the stored one
StaleTaskCall(id) ==
    /\ HasRow(tasks, id)
    /\ ~tasks[id].is_deleted
    /\ last'.id = id
    /\ last'.op \in FailFastOps
    /\ last'.ver # tasks[id].version

\* C18: AssignTask, ChangeTaskStatus, ChangeTaskPriority and the four relation
\* operations, called with a version other than the stored one, return
\* VersionConflict as the service raised it and write nothing, whatever the
\* operation's own validation would say about the request.
C18_FailFastVersionCheck ==
    [][\A id \in TaskIDs :
          StaleTaskCall(id) =>
              /\ last'.err = ErrVersionConflict
              /\ UNCHANGED <<users, tasks, categories, tags, task_categories, task_tags>>]_vars

\* C18: ChangeTaskStatus was called with a stale version and a transition the
\* table forbids, and answered VersionConflict; with the stored version the same
\* request is a business rule violation.
C18_StaleAndDisallowed ==
    /\ last.op = "ChangeTaskStatus"
    /\ HasRow(tasks, last.id)
    /\ last.ver # tasks[last.id].version
    /\ last.arg \notin validTransitions(tasks[last.id].status)
    /\ IsVersionConflictError(last.err)
    /\ IsBusinessRuleError(ChangeTaskStatus(DB, last.id, last.arg, tasks[last.id].version).err)

\* the assignee a call of CreateTask, UpdateTask or AssignTask names
AssigneeOf(call) == IF call.op = "AssignTask" THEN call.arg ELSE call.arg.assignee_id

\* the step is a call of CreateTask, UpdateTask or AssignTask whose assignee is
\* not the id of a stored, non-deleted user
NamesMissingAssignee ==
    /\ last'.op \in {"CreateTask", "UpdateTask", "AssignTask"}
    /\ userRepo_GetByID(DB, AssigneeOf(last')).err # Nil

\* AssignTask reaches its assignee check: the task is stored, not deleted, and
\* the caller presents the stored version
ReachesAssigneeCheck ==
    last'.op = "AssignTask" =>
        /\ taskRepo_GetByID(DB, last'.id).err = Nil
        /\ tasks[last'.id].version = last'.ver

C20_UsageCountsExact ==
    /\ \A c \in 1..Len(categories) :
          GetCategoryTaskCount(DB, c) = Cardinality(ReferencedBy(task_categories, c))
    /\ \A t \in 1..Len(tags) :
          GetTagTaskCount(DB, t) = Cardinality(ReferencedBy(task_tags, t))

\* C20, what the code does: both counts are the number of all non-deleted tasks,
\* for every category and every tag, referenced or not; the page size of one
\* that the count asks for does not limit the total.
C20_CountsEveryTask ==
    LET live == Cardinality({i \in 1..Len(tasks) : ~tasks[i].is_deleted})
    IN /\ \A c \in 1..Len(categories) : GetCategoryTaskCount(DB, c) = live
       /\ \A t \in 1..Len(tags) : GetTagTaskCount(DB, t) = live

\* the recognized members of the role enumeration
EnumeratedRoles == {UserRoleUser, UserRoleAdmin}

\* C21: IsValid accepts a user only if its role is user or admin, and
\* ChangeUserRole with any other role fails for every target user and leaves the
\* stored users unchanged.
C21_EnumeratedFieldsValidated ==
    [][/\ last'.op \in {"CreateUser", "UpdateUser"} /\ UserIsValid(last'.arg) = Nil
             => last'.arg.role \in EnumeratedRoles
       /\ last'.op = "ChangeUserRole" /\ last'.arg \notin EnumeratedRoles
             => last'.err # Nil /\ users' = users]_vars

\* C21, the half the code keeps: a role outside the enumeration is never stored,
\* ChangeUserRole, CreateUser and UpdateUser with such a role fail.
C21_UnknownRoleNeverStored ==
    [][/\ last'.op \in {"CreateUser", "UpdateUser"} /\ last'.arg.role \notin EnumeratedRoles
             => last'.err # Nil /\ users' = users
       /\ last'.op = "ChangeUserRole" /\ last'.arg \notin EnumeratedRoles
             => last'.err # Nil /\ users' = users]_vars

\* C21, what the code does: IsValid rejects only the empty and the unspecified
\* role or status; any other string passes, and a call carrying it is refused
\* by the CHECK constraint of the table, not with InvalidInput.
C21_OnlyEmptyIsRejected ==
    /\ TaskIsValid([title |-> "t", assignee_id |-> 1, status |-> "ARCHIVED"]) = Nil
    /\ last.op = "CreateUser" /\ last.arg.name # "" /\ last.arg.email # ""
          /\ last.arg.role = "root" /\ ~IsConflictError(last.err)
          => last.err = Wrap(StorageError)

\* the version field of the caller's entity when Update returns:
\* task.Version++ on the success path, untouched on every error path
VersionAfterUpdate(version, err) == IF err = Nil THEN version + 1 ELSE version

\* C22: after a successful repository Update the version of the caller's entity
\* equals the version stored for its id.
C22_InMemoryVersionInSync ==
    [][\A entity \in Entities, id \in TagIDs :
          RepoStep("Update", entity, id) /\ last'.err = Nil =>
              VersionAfterUpdate(last'.ver, last'.err) = DB'[entity][id].version]_vars

\* C22, what the code does: no repository Update returns without error, so the
\* caller's version is never advanced.
C22_NoUpdateSucceeds ==
    last.op = "Update" => last.err # Nil /\ VersionAfterUpdate(last.ver, last.err) = last.ver

\* the relationship mutations of the task service
RelationOps == {"AddTaskCategories", "RemoveTaskCategories", "AddTaskTags", "RemoveTaskTags"}

\* the step is a relationship mutation of the stored task id with a non-empty id list
MutatesRelation(id) ==
    /\ last'.op \in RelationOps
    /\ last'.id = id
    /\ last'.arg # {}
    /\ HasRow(tasks, id)

\* C23: each successful relationship mutation with a non-empty id list raises
\* the stored version of its task by exactly 1.
C23_RelationMutationBumpsVersion ==
    [][\A id \in TaskIDs :
          MutatesRelation(id) /\ last'.err = Nil =>
              tasks'[id].version = tasks[id].version + 1]_vars

\* C23, what the code does: no relationship mutation with a non-empty id list
\* succeeds, the statement that touches the task row is aborted by the trigger.
C23_NoRelationMutationSucceeds ==
    last.op \in RelationOps /\ last.arg # {} => last.err # Nil

\* the step is a call of AddTaskCategories or AddTaskTags on the stored,
\* non-deleted task id with its stored version and a non-empty set of ids that
\* are all associated with the task already
AddsAgain(op, junction, id) ==
    /\ last'.op = op
    /\ last'.id = id
    /\ taskRepo_GetByID(DB, id).err = Nil
    /\ last'.ver = tasks[id].version
    /\ last'.arg # {}
    /\ \A i \in last'.arg : <<id, i>> \in junction

\* C24: AddCategories / AddTags with the task's current version and ids that
\* are already associated with the task succeeds and leaves the junction
\* relation unchanged.
C24_RelationAddsIdempotent ==
    [][\A id \in TaskIDs :
          /\ AddsAgain("AddTaskCategories", task_categories, id)
                => last'.err = Nil /\ task_categories' = task_categories
          /\ AddsAgain("AddTaskTags", task_tags, id)
                => last'.err = Nil /\ task_tags' = task_tags]_vars

\* C24, what the code does: the relation is left as it was, but the call comes
\* back with the wrapped storage error of the statement that touches the task.
C24_AddAgainIsAnError ==
    [][\A id \in TaskIDs :
          AddsAgain("AddTaskCategories", task_categories, id)
              \/ AddsAgain("AddTaskTags", task_tags, id)
          => /\ last'.err = Wrap(StorageError)
             /\ UNCHANGED <<tasks, task_categories, task_tags>>]_vars

\* C25: a relationship mutation that fails, at whatever step, leaves the task
\* rows and both junction relations as they were before the call.
C25_RelationMutationAllOrNothing ==
    [][last'.op \in RelationOps /\ last'.err # Nil =>
          UNCHANGED <<tasks, task_categories, task_tags>>]_vars

\* C25: AddTaskCategories or RemoveTaskCategories failed after its junction
\* statement, on the statement that touches the task, and the association it
\* had inserted or deleted inside the transaction is as it was before.
C25_RolledBackAfterJunctionChange ==
    /\ last.op \in {"AddTaskCategories", "RemoveTaskCategories"}
    /\ last.err = Wrap(StorageError)
    /\ taskRepo_GetByID(DB, last.id).err = Nil
    /\ last.ver = tasks[last.id].version
    /\ last.arg # {}
    /\ \A i \in last.arg : HasRow(categories, i)
    /\ \/ last.op = "AddTaskCategories"
          /\ \A i \in last.arg : <<last.id, i>> \notin task_categories
       \/ last.op = "RemoveTaskCategories"
          /\ \A i \in last.arg : <<last.id, i>> \in task_categories

\* a record with this id is stored at this version, soft-deleted or not as asked
StoredAs(entity, id, version, deleted) ==
    /\ HasRow(DB[entity], id)
    /\ DB[entity][id].version = version
    /\ DB[entity][id].is_deleted = deleted

\* C26: SoftDelete(id, v) without a non-deleted record of that id at version v,
\* and Restore(id, v) without a soft-deleted record of that id at version v,
\* fail and leave every table unchanged; so either succeeds only with such a record.
C26_DeleteRestorePreconditions ==
    [][\A entity \in Entities :
          /\ last'.op = "SoftDelete" /\ last'.arg = entity
                /\ ~StoredAs(entity, last'.id, last'.ver, FALSE)
                => last'.err # Nil /\ DB' = DB
          /\ last'.op = "Restore" /\ last'.arg = entity
                /\ ~StoredAs(entity, last'.id, last'.ver, TRUE)
                => last'.err # Nil /\ DB' = DB]_vars

\* C26: a SoftDelete presenting a version other than the stored one, and a
\* Restore of a record that is not deleted, were refused.
C26_RefusedOnStoredRow ==
    /\ last.op \in {"SoftDelete", "Restore"}
    /\ HasRow(DB[last.arg], last.id)
    /\ ~DB[last.arg][last.id].is_deleted
    /\ last.err # Nil
    /\ \/ last.op = "SoftDelete" /\ last.ver # DB[last.arg][last.id].version
       \/ last.op = "Restore" /\ last.ver = DB[last.arg][last.id].version

\* ------------------------------------------------------------ calls of List
\* List of the four repositories; categoryIDs is the CategoryIDs filter of
\* TaskListOptions, which only the task repository is handed
repo_List(entity, db, includeDeleted, categoryIDs, page, pageSize) ==
    IF entity = "users" THEN userRepo_List(db, includeDeleted, page, pageSize)
    ELSE IF entity = "tasks"
         THEN taskRepo_List(db, [TaskListOptions(pageSize, categoryIDs, {}) EXCEPT
                                     !.IncludeDeleted = includeDeleted, !.Page = page])
    ELSE IF entity = "categories" THEN categoryRepo_List(db, includeDeleted, << >>, page, pageSize)
    ELSE tagRepo_List(db, includeDeleted, << >>, page, pageSize)

PageInputs == {0, 1, 2}
PageSizeInputs == {-1, 0, 1, 2}

\* a List call; last keeps the ids of the rows returned and the total
RepoList ==
    \E entity \in Entities, includeDeleted \in BOOLEAN, page \in PageInputs,
       pageSize \in PageSizeInputs, categoryIDs \in {{}, {1}} :
        LET res == repo_List(entity, DB, includeDeleted, categoryIDs, page, pageSize)
        IN /\ entity # "tasks" => categoryIDs = {}
           /\ last' = [op |-> "List", id |-> page, ver |-> pageSize,
                       arg |-> [entity |-> entity, includeDeleted |-> includeDeleted,
                                categoryIDs |-> categoryIDs],
                       err |-> Nil,
                       items |-> [k \in 1..Len(res.items) |-> res.items[k].id],
                       total |-> res.total]
           /\ UNCHANGED <<users, tasks, categories, tags, task_categories, task_tags, workers>>

NextList ==
    \/ CallCreateTask
    \/ RepoList

SpecList == Init /\ [][NextList]_vars

\* the ids of the rows of a table that match a filter: the soft-delete filter
\* unless lifted, and for tasks an association with one of the category ids
Filtered(entity, includeDeleted, categoryIDs) ==
    LET all == [k \in 1..Len(DB[entity]) |-> k]
        Matches(id) ==
            /\ includeDeleted \/ ~DB[entity][id].is_deleted
            /\ categoryIDs # {} => \E c \in categoryIDs : <<id, c>> \in task_categories
    IN SelectSeq(all, Matches)

\* the block at offset page * pageSize of the matching rows, newest first, of
\* at most pageSize rows, 50 when pageSize <= 0
ExpectedPage(matching, page, pageSize) ==
    LET size == IF pageSize <= 0 THEN 50 ELSE pageSize
        n == Len(matching)
        rest == n - page * size
        count == IF rest <= 0 THEN 0 ELSE IF rest < size THEN rest ELSE size
    IN [k \in 1..count |-> matching[n + 1 - (page * size + k)]]

\* C27: the total a List call returns is the number of records matching its
\* filter, whatever page and pageSize are, and the slice is the block at offset
\* page * pageSize of the matching records, newest first, of at most pageSize
\* records (50 when pageSize <= 0).
C27_ListPagination ==
    last.op = "List" =>
        LET matching == Filtered(last.arg.entity, last.arg.includeDeleted, last.arg.categoryIDs)
        IN /\ last.total = Len(matching)
           /\ last.items = ExpectedPage(matching, last.id, last.ver)

\* C27, the half the code keeps: total and slice are as claimed for the rows
\* the WHERE clause selects, which takes no account of the category ids.
C27_PagesWhatTheQuerySelects ==
    last.op = "List" =>
        LET matching == Filtered(last.arg.entity, last.arg.includeDeleted, {})
        IN /\ last.total = Len(matching)
           /\ last.items = ExpectedPage(matching, last.id, last.ver)
           /\ Len(last.items) <= IF last.ver <= 0 THEN DefaultPageSize ELSE last.ver

\* the step is a FindOrCreateTag with a valid name whose normal form no
\* non-deleted tag carries
FindsNothing ==
    /\ last'.op = "FindOrCreateTag"
    /\ ValidTagName(last'.arg)
    /\ TagsNamed(tags, NormalForm(last'.arg)) = {}

\* C28: FindOrCreateTag with a valid name that no non-deleted tag carries in
\* normal form stores and returns a new tag at version 1, named by the normal
\* form, created by the system identity, coloured with the first palette entry.
C28_FindOrCreateCreates ==
    [][FindsNothing =>
           /\ last'.err = Nil
           /\ tags' = Append(tags, [id |-> Len(tags) + 1, name |-> NormalForm(last'.arg),
                                    color |-> "#FF6B6B", creator_id |-> SystemCreator,
                                    version |-> 1, is_deleted |-> FALSE])
           /\ last'.id = Len(tags')]_vars

\* C28, what the code does: the tag it builds names the creator "system", which
\* is no user, the INSERT is rejected and nothing is stored.
C28_SystemTagIsRejected ==
    [][FindsNothing => last'.err = Wrap(StorageError) /\ last'.id = 0 /\ tags' = tags]_vars

\* ------------------------------------------- calls of the create operations
NextCreate ==
    \/ CallCreateUser
    \/ CallCreateTask
    \/ CallCreateCategory
    \/ CallCreateTag

SpecCreate == Init /\ [][NextCreate]_vars

\* the step is a create call whose entity fails IsValid
CreatesInvalid ==
    \/ last'.op = "CreateUser" /\ UserIsValid(last'.arg) # Nil
    \/ last'.op = "CreateTask" /\ TaskIsValid(last'.arg) # Nil
    \/ last'.op = "CreateCategory" /\ CategoryIsValid(last'.arg) # Nil
    \/ last'.op = "CreateTag" /\ TagIsValid(last'.arg) # Nil

\* C29: CreateUser, CreateTask, CreateCategory and CreateTag with an entity
\* that fails IsValid return the InvalidInput of the validation, as it is, and
\* leave every table unchanged, whatever the tables hold.
C29_InvalidRejectedBeforeStorage ==
    [][CreatesInvalid => last'.err = ErrInvalidInput /\ DB' = DB]_vars

\* C29: CreateUser was called without a name and with the email of a stored
\* user, and answered InvalidInput: no lookup for the email was made first.
C29_InvalidBeatsConflict ==
    /\ last.op = "CreateUser"
    /\ last.arg.name = ""
    /\ userRepo_GetByEmail(DB, last.arg.email).err = Nil
    /\ IsInvalidInputError(last.err)

\* the operations of the task service that mutate one task
TaskMutationOps ==
    {"UpdateTask", "DeleteTask", "RestoreTask", "AssignTask", "ChangeTaskStatus",
     "ChangeTaskPriority"} \cup RelationOps

\* the pairs by which two junction relations differ
Differ(before, after) == (before \ after) \cup (after \ before)

NextStatus ==
    \/ CallCreateTask
    \/ CallUpdateTask
    \/ CallAssignTask
    \/ CallChangeTaskStatus
    \/ CallChangeTaskPriority

SpecStatus == Init /\ [][NextStatus]_vars

NextAssignee ==
    \/ CallCreateUser
    \/ CallDeleteUser
    \/ CallCreateTask
    \/ CallAssignTask

SpecAssignee == Init /\ [][NextAssignee]_vars

RelationRaceOps == {"DeleteCategory", "DeleteTag", "AddTaskCategories", "AddTaskTags"}

\* the ids a request names: the category or tag to delete, or the task
RelationRaceIDs(op) ==
    IF op = "DeleteCategory" THEN CategoryIDs \ {0}
    ELSE IF op = "DeleteTag" THEN TagIDs \ {0}
    ELSE TaskIDs \ {0}

\* the categories or tags an add request names
RelationRaceArgs(op) ==
    IF op = "AddTaskCategories" THEN {{i} : i \in 1..MaxCategories}
    ELSE IF op = "AddTaskTags" THEN {{i} : i \in 1..MaxTags}
    ELSE {{}}

\* the error the handler returns before it writes
CheckRelationChange(db, op, id, ids, version) ==
    IF op = "DeleteCategory"
    THEN IF id = 0 THEN ErrInvalidInput ELSE ValidateCategoryUsage(db, id)
    ELSE IF op = "DeleteTag"
    THEN IF id = 0 THEN ErrInvalidInput ELSE ValidateTagUsage(db, id)
    ELSE IF op = "AddTaskCategories"
    THEN AddTaskRelation(db, id, version,
                         \E c \in ids : categoryRepo_GetByID(db, c).err # Nil,
                         [db |-> db, err |-> Nil]).err
    ELSE AddTaskRelation(db, id, version,
                         \E t \in ids : tagRepo_GetByID(db, t).err # Nil,
                         [db |-> db, err |-> Nil]).err

\* the repository write of the handler and what the handler returns for it
WriteRelationChange(db, op, id, ids, version) ==
    LET res == IF op = "DeleteCategory" THEN categoryRepo_SoftDelete(db, id, version)
               ELSE IF op = "DeleteTag" THEN tagRepo_SoftDelete(db, id, version)
               ELSE IF op = "AddTaskCategories" THEN taskRepo_AddCategories(db, id, ids, version)
               ELSE taskRepo_AddTags(db, id, ids, version)
    IN IF res.err = Nil
       THEN [db |-> res.db,
             err |-> IF op \in {"AddTaskCategories", "AddTaskTags"}
                     THEN taskRepo_GetByID(res.db, id).err
                     ELSE Nil]
       ELSE IF op \in {"DeleteCategory", "DeleteTag"} /\ IsVersionConflictError(res.err)
       THEN res
       ELSE [db |-> db, err |-> Wrap(res.err)]

RelationCheck(w) ==
    \E op \in RelationRaceOps, version \in Versions :
        \E id \in RelationRaceIDs(op), ids \in RelationRaceArgs(op) :
            LET err == CheckRelationChange(DB, op, id, ids, version)
                req == [op |-> op, id |-> id, ver |-> version, arg |-> ids]
            IN /\ workers[w].pc = "idle"
               /\ workers' = [workers EXCEPT ![w] =
                     IF err # Nil
                     THEN [pc |-> "done", req |-> req, err |-> err, raced |-> FALSE]
                     ELSE [pc |-> "checked", req |-> req,
                           raced |-> \E o \in Workers \ {w} : workers[o].pc = "checked"]]
               /\ UNCHANGED <<users, tasks, categories, tags, task_categories, task_tags, last>>

RelationWrite(w) ==
    LET me == workers[w]
        res == WriteRelationChange(DB, me.req.op, me.req.id, me.req.arg, me.req.ver)
    IN /\ me.pc = "checked"
       /\ Commit(res.db)
       /\ workers' = [workers EXCEPT ![w] =
             [pc |-> "done", req |-> me.req, err |-> res.err, raced |-> me.raced]]
       /\ last' = Call(me.req.op, me.req.id, me.req.ver, me.req.arg, res)

\* CreateTask between the round trips of the two requests, with a valid task
RaceCreateTask ==
    LET in == [title |-> "t", assignee_id |-> 1, status |-> TaskStatusOpen, priority |-> "LOW"]
        res == CreateTask(DB, TaskArg(in, 0, 0))
    IN /\ Len(tasks) < MaxTasks
       /\ Commit(res.db)
       /\ last' = Call("CreateTask", 0, 0, in, res)
       /\ UNCHANGED workers

NextRelationRace ==
    \/ RaceCreateTask
    \/ \E w \in Workers : RelationCheck(w)
    \/ \E w \in Workers : RelationWrite(w)

SpecRelationRace == Init /\ [][NextRelationRace]_vars

C35_DeletedRowChangedOnlyByRestore ==
    [][\A entity \in Entities :
          \A id \in 1..Len(DB[entity]) :
              DB[entity][id].is_deleted =>
                  /\ (last'.op = "Update" /\ last'.arg = entity /\ last'.id = id) =>
                        last'.err # Nil
                  /\ ~(last'.op = "Restore" /\ last'.arg = entity /\ last'.id = id) =>
                        DB'[entity][id] = DB[entity][id]]_vars


\* C36: a successful Update leaves the stored record's id, created_at,
\* is_deleted and deleted_at, and for categories and tags also creator_id,
\* unchanged, whatever the caller's entity carries in those fields.  Stated
\* over UpdateCategory, whose callers send a creator_id of their own.
C36_UpdateKeepsImmutableFields ==
    [][\A id \in CategoryIDs :
          (last'.op = "UpdateCategory" /\ last'.id = id /\ last'.err = Nil) =>
              /\ HasRow(categories, id)
              /\ categories'[id].id = categories[id].id
              /\ categories'[id].is_deleted = categories[id].is_deleted
              /\ categories'[id].creator_id = categories[id].creator_id]_vars

\* C36, what the code does: no UpdateCategory returns without error
C36_NoUpdateCategorySucceeds ==
    last.op = "UpdateCategory" => last.err # Nil

====
